---- MODULE Spec2Model ----
(***************************************************************************)
(* Model of the pi-experiments extensions:                                 *)
(*   - the Kilo Code provider (model catalog normalisation, fetch,         *)
(*     publication and manual refresh), in its two entry-point variants;   *)
(*   - the quota commands of the Antigravity and Copilot extensions        *)
(*     (credential check, HTTP calls, widget display, 60 s expiry timer)   *)
(*     and the quota tools that return the same data to the LLM;           *)
(*   - the free-model listing command of part_006.                         *)
(*                                                                         *)
(* JavaScript values are tagged records.  A number n + 1/2*[half] is       *)
(* [t |-> "number", n |-> n, half |-> BOOLEAN]; strings are sequences of   *)
(* one-character strings, so that trim and comparison are computed.        *)
(***************************************************************************)
EXTENDS Integers, Sequences, FiniteSets, TLC

VARIABLES
    \* ---- normaliser and fetcher applied to one input (NormSpec)
    raw,          \* the raw gateway record handed to toModelConfig
    cfg,          \* its result: NONE before the call, then UNDEF or a KiloModelConfig
    body,         \* the gateway response handed to fetchKiloModels
    outcome,      \* its result: NONE before the call, then [ok, models] or [ok, error]
    sorted,       \* the raw list as fetchKiloModels sorted it, NONE before it did
    \* ---- catalog registry bridge (Spec)
    variant,      \* which entry point runs: "kilo-code-provider.ts" or "part_005"
    ext,          \* the entry point's position: "fetch", "json", "active", "rejected"
    published,    \* the models last passed to pi.registerProvider, NONE before
    registerCalls,\* number of pi.registerProvider calls so far
    commands,     \* the names passed to pi.registerCommand
    warned,       \* console.warn messages of the entry point
    thrown,       \* the error the entry point's fetchKiloModels call threw, NONE if none
    initCatalog,  \* the entry point's local `models` once it has registered them
    refresh,      \* the kilo-refresh-models handler invocations
    \* ---- quota commands (QuotaSpec)
    timers,       \* pending setTimeout callbacks, each with the time left to run
    widget,       \* ctx.ui widget slots, by key
    quota,        \* the quota / quota-copilot handler invocations
    \* ---- quota widget contents (RenderSpec)
    modelsData,   \* the fetchAvailableModels response the /quota widget is built from
    agLines,      \* the lines of the /quota widget, NONE before it is built
    copilotData,  \* the user response the /quota-copilot widget is built from
    copilotLines, \* the lines of the /quota-copilot widget, NONE before it is built
    \* ---- free-model listing (FreeSpec)
    listing       \* the kilo-list-free-models handler invocation

vars == <<raw, cfg, body, outcome, sorted,
          variant, ext, published, registerCalls, commands, warned, thrown,
          initCatalog, refresh, timers, widget, quota,
          modelsData, agLines, copilotData, copilotLines, listing>>

normVars   == <<raw, cfg, body, outcome, sorted>>
bridgeVars == <<variant, ext, published, registerCalls, commands, warned, thrown,
                initCatalog, refresh>>
quotaVars  == <<timers, widget, quota>>
renderVars == <<modelsData, agLines, copilotData, copilotLines>>
listVars   == <<listing>>

(***************************************************************************)
(* JavaScript values                                                       *)
(***************************************************************************)
UNDEF == [t |-> "undefined"]
NULL  == [t |-> "null"]
NAN   == [t |-> "NaN"]
INF   == [t |-> "Infinity"]
NONE  == [t |-> "none"]

Num(k)    == [t |-> "number", n |-> k, half |-> FALSE]
NumHalf(k) == [t |-> "number", n |-> k, half |-> TRUE]
Str(s)    == [t |-> "string", s |-> s]
Bool(b)   == [t |-> "boolean", b |-> b]

\* JavaScript truthiness of the values the model uses
Truthy(v) ==
    CASE v.t = "number" -> ~(v.n = 0 /\ ~v.half)
      [] v.t = "string" -> Len(v.s) > 0
      [] v.t = "boolean" -> v.b
      [] v.t = "Infinity" -> TRUE
      [] OTHER -> FALSE

\* a || b
OrElse(a, b) == IF Truthy(a) THEN a ELSE b

\* a ?? b
Coalesce(a, b) == IF a.t \in {"undefined", "null"} THEN b ELSE a

(***************************************************************************)
(* Strings                                                                 *)
(***************************************************************************)
IsSpace(c) == c = " "

RECURSIVE TrimStart(_)
TrimStart(s) ==
    IF Len(s) > 0 /\ IsSpace(Head(s)) THEN TrimStart(Tail(s)) ELSE s

RECURSIVE TrimEnd(_)
TrimEnd(s) ==
    IF Len(s) > 0 /\ IsSpace(s[Len(s)]) THEN TrimEnd(SubSeq(s, 1, Len(s) - 1)) ELSE s

\* String.prototype.trim
Trim(s) == TrimEnd(TrimStart(s))

\* value?.trim() for a value that is a string, undefined or null
OptTrim(v) == IF v.t = "string" THEN Str(Trim(v.s)) ELSE UNDEF

\* collation rank of a character: white space sorts before letters
Rank(c) == CASE c = " " -> 0 [] c = "a" -> 1 [] c = "b" -> 2 [] OTHER -> 3

\* String.prototype.localeCompare: negative, zero or positive
RECURSIVE LocaleCompare(_, _)
LocaleCompare(x, y) ==
    IF Len(x) = 0 /\ Len(y) = 0 THEN 0
    ELSE IF Len(x) = 0 THEN -1
    ELSE IF Len(y) = 0 THEN 1
    ELSE IF Rank(Head(x)) # Rank(Head(y)) THEN Rank(Head(x)) - Rank(Head(y))
    ELSE LocaleCompare(Tail(x), Tail(y))

(***************************************************************************)
(* Model schema normaliser (kilo-code-provider)                            *)
(***************************************************************************)
MAX_SAFE_INTEGER == 2147483647
    \* Number.MAX_SAFE_INTEGER (2^53 - 1), scaled to the largest integer of the
    \* model's number domain; every index the model feeds in is at most this.

DEFAULT_COMPAT ==
    [maxTokensField |-> "max_tokens", supportsDeveloperRole |-> FALSE,
     supportsReasoningEffort |-> FALSE, supportsUsageInStreaming |-> FALSE]

ZERO_COST == [input |-> 0, output |-> 0, cacheRead |-> 0, cacheWrite |-> 0]

Min2(a, b) == IF a < b THEN a ELSE b
Max2(a, b) == IF a > b THEN a ELSE b

\* asPositiveInt, returning UNDEF or an integral number
asPositiveIntNoGuard(value) ==
    IF value.t # "number" THEN UNDEF ELSE Num(value.n)

asPositiveInt(value) ==
    IF value.t # "number" THEN UNDEF      \* typeof !== "number", NaN, Infinity
    ELSE IF value.n < 0 \/ (value.n = 0 /\ ~value.half) THEN UNDEF
    ELSE Num(value.n)                     \* Math.floor

\* model.top_provider?.field
TopProvider(model, field) ==
    IF model.top_provider.t = "object" THEN model.top_provider[field] ELSE UNDEF

resolveContextWindowNullish(model) ==
    Coalesce(Coalesce(asPositiveInt(model.context_length),
                      asPositiveInt(TopProvider(model, "context_length"))),
             Num(128000)).n

resolveContextWindow(model) ==
    OrElse(OrElse(asPositiveInt(model.context_length),
                  asPositiveInt(TopProvider(model, "context_length"))),
           Num(128000)).n

resolveMaxTokensNoFloor(model, contextWindow) ==
    LET providerMax == asPositiveInt(TopProvider(model, "max_completion_tokens"))
    IN  IF Truthy(providerMax) THEN providerMax.n
        ELSE Min2(contextWindow \div 4, 65536)

resolveMaxTokensClampVendor(model, contextWindow) ==
    LET providerMax == asPositiveInt(TopProvider(model, "max_completion_tokens"))
        estimated == contextWindow \div 4
    IN  Max2(4096, Min2(IF Truthy(providerMax) THEN providerMax.n ELSE estimated,
                        65536))

resolveMaxTokens(model, contextWindow) ==
    LET providerMax == asPositiveInt(TopProvider(model, "max_completion_tokens"))
    IN  IF Truthy(providerMax) THEN providerMax.n
        ELSE LET estimated == contextWindow \div 4
             IN  Max2(4096, Min2(estimated, 65536))

resolveInputModalities(model) ==
    LET input == IF model.architecture.t = "object"
                 THEN model.architecture.input_modalities ELSE {}
    IN  IF "image" \in input THEN <<"text", "image">> ELSE <<"text">>

supportsReasoning(model) ==
    "reasoning" \in model.supported_parameters
        \/ "include_reasoning" \in model.supported_parameters

toModelConfigNoTrim(model) ==
    LET id == IF model.id.t = "string" THEN model.id ELSE UNDEF
    IN  IF ~Truthy(id) THEN UNDEF
        ELSE LET contextWindow == resolveContextWindow(model)
                 maxTokens == resolveMaxTokens(model, contextWindow)
             IN  [t |-> "config",
                  id |-> id.s,
                  name |-> OrElse(OptTrim(model.name), id).s,
                  reasoning |-> supportsReasoning(model),
                  input |-> resolveInputModalities(model),
                  cost |-> ZERO_COST,
                  contextWindow |-> contextWindow,
                  maxTokens |-> maxTokens,
                  compat |-> DEFAULT_COMPAT]

toModelConfig(model) ==
    LET id == OptTrim(model.id)
    IN  IF ~Truthy(id) THEN UNDEF
        ELSE LET contextWindow == resolveContextWindow(model)
                 maxTokens == resolveMaxTokens(model, contextWindow)
             IN  [t |-> "config",
                  id |-> id.s,
                  name |-> OrElse(OptTrim(model.name), id).s,
                  reasoning |-> supportsReasoning(model),
                  input |-> resolveInputModalities(model),
                  cost |-> ZERO_COST,
                  contextWindow |-> contextWindow,
                  maxTokens |-> maxTokens,
                  compat |-> DEFAULT_COMPAT]

(***************************************************************************)
(* Catalog fetcher: the part of fetchKiloModels after the response arrived *)
(***************************************************************************)
\* the comparator handed to Array.prototype.sort
CompareModelsRawIndex(a, b) ==
    LET ai == IF a.preferredIndex.t = "number" THEN a.preferredIndex.n
              ELSE MAX_SAFE_INTEGER
        bi == IF b.preferredIndex.t = "number" THEN b.preferredIndex.n
              ELSE MAX_SAFE_INTEGER
    IN  IF ai # bi THEN ai - bi
        ELSE LocaleCompare(OrElse(OrElse(a.name, a.id), Str(<<>>)).s,
                           OrElse(OrElse(b.name, b.id), Str(<<>>)).s)

\* the comparator handed to sort() in fetchKiloModels
CompareModels(a, b) ==
    LET ai == Coalesce(asPositiveInt(a.preferredIndex), Num(MAX_SAFE_INTEGER)).n
        bi == Coalesce(asPositiveInt(b.preferredIndex), Num(MAX_SAFE_INTEGER)).n
    IN  IF ai # bi THEN ai - bi
        ELSE LocaleCompare(OrElse(OrElse(a.name, a.id), Str(<<>>)).s,
                           OrElse(OrElse(b.name, b.id), Str(<<>>)).s)

RECURSIVE InsertSortedUnstable(_, _)
InsertSortedUnstable(s, x) ==
    IF Len(s) = 0 THEN <<x>>
    ELSE IF CompareModels(Head(s), x) < 0
         THEN <<Head(s)>> \o InsertSortedUnstable(Tail(s), x)
    ELSE <<x>> \o s

\* x put into the sorted s behind every element that does not compare greater
RECURSIVE InsertSorted(_, _)
InsertSorted(s, x) ==
    IF Len(s) = 0 THEN <<x>>
    ELSE IF CompareModels(Head(s), x) <= 0 THEN <<Head(s)>> \o InsertSorted(Tail(s), x)
    ELSE <<x>> \o s

\* data.slice().sort(comparator): Array.prototype.sort is stable
RECURSIVE SortModels(_)
SortModels(data) ==
    IF Len(data) = 0 THEN <<>>
    ELSE InsertSorted(SortModels(SubSeq(data, 1, Len(data) - 1)), data[Len(data)])

\* .map(toModelConfig).filter(Boolean)
RECURSIVE MapFilter(_)
MapFilter(data) ==
    IF Len(data) = 0 THEN <<>>
    ELSE LET m == toModelConfig(Head(data))
         IN  (IF m.t = "config" THEN <<m>> ELSE <<>>) \o MapFilter(Tail(data))

NormalizeModels(data) == MapFilter(SortModels(data))

\* response.ok
IsOk(status) == status >= 200 /\ status <= 299

\* new Error(`failed to fetch models (${response.status})`).message
HttpError(status) == <<"failed to fetch models (", ToString(status), ")">>

ZeroModelsError == <<"gateway returned zero models">>

\* fetchKiloModels once fetch() has resolved with `status`: throws or goes on
\* to read the body
FetchStatusThrows(status) == ~IsOk(status)

\* payload.data || []
RawData(payload) == IF payload.data.t = "array" THEN payload.data.items ELSE <<>>

ParseModelsRawEmpty(payload) ==
    LET data == IF payload.data.t = "array" THEN payload.data.items ELSE <<>>
    IN  IF Len(data) = 0 THEN [ok |-> FALSE, error |-> ZeroModelsError]
        ELSE [ok |-> TRUE, models |-> NormalizeModels(data)]

\* fetchKiloModels once response.json() has resolved with `payload`
ParseModels(payload) ==
    LET data == IF payload.data.t = "array" THEN payload.data.items ELSE <<>>
        models == NormalizeModels(data)
    IN  IF Len(models) = 0 THEN [ok |-> FALSE, error |-> ZeroModelsError]
        ELSE [ok |-> TRUE, models |-> models]

\* fetchKiloModels as a function of the gateway's answer
fetchKiloModels(response) ==
    IF FetchStatusThrows(response.status)
    THEN [ok |-> FALSE, error |-> HttpError(response.status)]
    ELSE ParseModels(response.payload)

(***************************************************************************)
(* Inputs: raw gateway records and gateway responses                       *)
(***************************************************************************)
MaxData == 2      \* longest raw model list of a gateway response

Obj(cl, mct) == [t |-> "object", context_length |-> cl, max_completion_tokens |-> mct]

Arch(mods) == [t |-> "object", input_modalities |-> mods]

RawModel(id, name, cl, tp, pidx) ==
    [id |-> id, name |-> name, context_length |-> cl, top_provider |-> tp,
     architecture |-> UNDEF, supported_parameters |-> {}, preferredIndex |-> pidx]

\* values a numeric field of the gateway's JSON may hold
ContextValues ==
    {UNDEF, NULL, NAN, INF, Str(<<"a">>), Num(0), NumHalf(0), Num(-1), Num(2000),
     NumHalf(4096), Num(16384), Num(200000), Num(2000000)}

MaxCompletionValues ==
    {UNDEF, NULL, NAN, INF, Str(<<"a">>), Num(0), NumHalf(0), Num(-5), Num(1),
     Num(100), Num(4096), NumHalf(3000), Num(65536), Num(65537), Num(100000)}

TopProviders ==
    {UNDEF} \cup {Obj(cl, mct) : cl \in {UNDEF, Num(8000)}, mct \in MaxCompletionValues}

IdValues ==
    {UNDEF, NULL, Str(<<>>), Str(<<" ">>), Str(<<" ", " ">>), Str(<<"a">>),
     Str(<<" ", "a">>), Str(<<"a", " ">>), Str(<<"a", " ", "b">>), Str(<<"b">>)}

\* the records the normaliser is applied to
RawInputs ==
    {RawModel(id, UNDEF, cl, tp, UNDEF) :
        id \in {UNDEF, Str(<<" ">>), Str(<<" ", "a">>)},
        cl \in ContextValues, tp \in TopProviders}
    \cup {[RawModel(Str(<<"a">>), nm, Num(2000), UNDEF, UNDEF)
             EXCEPT !.architecture = ar, !.supported_parameters = sp] :
            nm \in {UNDEF, Str(<<>>), Str(<<" ">>), Str(<<"b", " ">>)},
            ar \in {UNDEF, Arch({}), Arch({"text"}), Arch({"text", "image"})},
            sp \in {{}, {"tools"}, {"reasoning"}, {"include_reasoning", "tools"}}}
    \cup {RawModel(Str(<<"a">>), UNDEF, cl, Obj(ncl, UNDEF), UNDEF) :
            cl \in ContextValues, ncl \in ContextValues}
    \cup {RawModel(id, nm, Num(2000), UNDEF, UNDEF) :
            id \in IdValues, nm \in {UNDEF, Str(<<"b">>)}}

\* the records gateway responses are built from
ListedModels ==
    {RawModel(id, UNDEF, Num(2000), UNDEF, pidx) :
        id \in {Str(<<" ">>), Str(<<"a">>), Str(<<" ", "a">>), Str(<<"b">>)},
        pidx \in {UNDEF, Num(1)}}
    \cup {RawModel(UNDEF, Str(<<"a">>), UNDEF, UNDEF, Num(2)),
          RawModel(NULL, UNDEF, UNDEF, UNDEF, UNDEF),
          RawModel(Str(<<>>), Str(<<"b">>), UNDEF, UNDEF, Num(1)),
          RawModel(Str(<<"b">>), Str(<<"a">>), Num(200000), Obj(UNDEF, Num(100)), Num(0)),
          RawModel(Str(<<"a">>), UNDEF, Num(2000), UNDEF, Num(-1)),
          RawModel(Str(<<"b">>), UNDEF, Num(2000), UNDEF, INF),
          RawModel(Str(<<" ", "a">>), UNDEF, Num(2000), UNDEF, NAN),
          RawModel(Str(<<"a">>), Str(<<"b">>), Num(2000), UNDEF, Str(<<"1">>))}

Array(items) == [t |-> "array", items |-> items]

SeqsUpTo(S, n) == UNION {[1..k -> S] : k \in 0..n}

Payloads == {[data |-> UNDEF]} \cup {[data |-> Array(d)] : d \in SeqsUpTo(ListedModels, MaxData)}

EmptyPayload == [data |-> Array(<<>>)]

FailStatuses == {404, 500}

Responses ==
    {[status |-> 200, payload |-> p] : p \in Payloads}
    \cup {[status |-> st, payload |-> EmptyPayload] : st \in FailStatuses \cup {204}}

Note(text, level) == [text |-> text, level |-> level]

\* a list of models held by a variable that may hold none
List(models) == [t |-> "list", items |-> models]

\* a caught or thrown Error
Err(message) == [t |-> "error", message |-> message]

(***************************************************************************)
(* The other components at rest                                            *)
(***************************************************************************)
MaxRefresh == 2   \* kilo-refresh-models invocations
MaxQuota == 2     \* quota command invocations

IdleRefresh == [pc |-> "idle", notes |-> <<>>, models |-> NONE, error |-> NONE]
IdleQuota ==
    [pc |-> "idle", vendor |-> "none", via |-> "none", credential |-> NONE,
     notes |-> <<>>, calls |-> <<>>,
     localProject |-> UNDEF, loadData |-> NONE, project |-> UNDEF, error |-> NONE,
     result |-> NONE]

NormRest ==
    /\ raw = RawModel(UNDEF, UNDEF, UNDEF, UNDEF, UNDEF)
    /\ cfg = NONE
    /\ body = [status |-> 200, payload |-> EmptyPayload]
    /\ outcome = NONE
    /\ sorted = NONE

BridgeRest ==
    /\ ext = "fetch"
    /\ published = NONE
    /\ registerCalls = 0
    /\ commands = {}
    /\ warned = <<>>
    /\ thrown = NONE
    /\ initCatalog = NONE
    /\ refresh = [i \in 1..MaxRefresh |-> IdleRefresh]

QuotaRest ==
    /\ timers = {}
    /\ widget = [k \in {"antigravity-quota", "copilot-quota"} |-> NONE]
    /\ quota = [i \in 1..MaxQuota |-> IdleQuota]

RenderRest ==
    /\ modelsData = [models |-> UNDEF, agentModelSorts |-> UNDEF]
    /\ agLines = NONE
    /\ copilotData = [quota_snapshots |-> UNDEF]
    /\ copilotLines = NONE

IdleListing ==
    [pc |-> "idle", notes |-> <<>>, data |-> NONE, listed |-> NONE, error |-> NONE]

ListRest == listing = IdleListing

(***************************************************************************)
(* NormSpec: toModelConfig and fetchKiloModels applied to one input each   *)
(***************************************************************************)
NormInit ==
    /\ \/ raw \in RawInputs /\ body = [status |-> 200, payload |-> EmptyPayload]
       \/ raw = RawModel(UNDEF, UNDEF, UNDEF, UNDEF, UNDEF) /\ body \in Responses
    /\ cfg = NONE
    /\ outcome = NONE
    /\ sorted = NONE
    /\ variant = "part_005"
    /\ BridgeRest
    /\ QuotaRest
    /\ RenderRest
    /\ ListRest

Normalize ==
    /\ cfg = NONE
    /\ cfg' = toModelConfig(raw)
    /\ UNCHANGED <<raw, body, outcome, sorted, bridgeVars, quotaVars, renderVars, listVars>>

FetchModels ==
    /\ outcome = NONE
    /\ outcome' = fetchKiloModels(body)
    /\ sorted' = IF FetchStatusThrows(body.status) THEN NONE
                 ELSE List(SortModels(RawData(body.payload)))
    /\ UNCHANGED <<raw, cfg, body, bridgeVars, quotaVars, renderVars, listVars>>

NormNext == Normalize \/ FetchModels

NormSpec == NormInit /\ [][NormNext]_vars

(***************************************************************************)
(* Catalog registry bridge: the extension entry point and the              *)
(* kilo-refresh-models command (Spec)                                      *)
(***************************************************************************)
FallbackUnclamped(id, name, input, contextWindow, maxTokens) ==
    [t |-> "config", id |-> <<id>>, name |-> <<name>>, reasoning |-> TRUE,
     input |-> input, cost |-> ZERO_COST, contextWindow |-> contextWindow,
     maxTokens |-> 2 * maxTokens, compat |-> DEFAULT_COMPAT]

Fallback(id, name, input, contextWindow, maxTokens) ==
    [t |-> "config", id |-> <<id>>, name |-> <<name>>, reasoning |-> TRUE,
     input |-> input, cost |-> ZERO_COST, contextWindow |-> contextWindow,
     maxTokens |-> maxTokens, compat |-> DEFAULT_COMPAT]

FALLBACK_MODELS ==
    << Fallback("kilo/auto", "Kilo: Auto", <<"text", "image">>, 200000, 64000),
       Fallback("anthropic/claude-sonnet-4.5", "Anthropic: Claude Sonnet 4.5",
                <<"text", "image">>, 200000, 64000),
       Fallback("openai/gpt-5.2-codex", "OpenAI: GPT-5.2 Codex",
                <<"text", "image">>, 400000, 128000),
       Fallback("google/gemini-3-flash-preview", "Google: Gemini 3 Flash Preview",
                <<"text", "image">>, 1048576, 65535),
       Fallback("minimax/minimax-m2.5:free", "MiniMax: M2.5 (free)",
                <<"text">>, 204800, 131072) >>

Variants == {"kilo-code-provider.ts", "part_005"}

REFRESH_COMMAND == "kilo-refresh-models"

\* what the gateway may answer to the entry point and to a refresh
BridgeStatuses == {200, 500}

ModelA == RawModel(Str(<<"a">>), UNDEF, Num(2000), UNDEF, UNDEF)
ModelA2 == RawModel(Str(<<" ", "a">>), UNDEF, Num(2000), UNDEF, UNDEF)
ModelB == RawModel(Str(<<"b">>), UNDEF, Num(2000), UNDEF, Num(1))
ModelBlank == RawModel(Str(<<" ">>), UNDEF, Num(2000), UNDEF, UNDEF)

BridgePayloads ==
    { [data |-> UNDEF],
      [data |-> Array(<<ModelBlank>>)],
      [data |-> Array(<<ModelA>>)],
      [data |-> Array(<<ModelB>>)],
      [data |-> Array(<<ModelA, ModelB>>)],
      [data |-> Array(<<ModelA, ModelA2>>)] }

\* the rejection of fetch() itself (no network)
NetworkError == <<"fetch failed">>


registerKiloProviderAppend(models) ==
    /\ published' = IF published = NONE THEN List(models)
                     ELSE List(published.items \o models)
    /\ registerCalls' = registerCalls + 1

\* registerKiloProvider: pi.registerProvider(PROVIDER_NAME, {..., models})
registerKiloProvider(models) ==
    /\ published' = List(models)
    /\ registerCalls' = registerCalls + 1

\* the entry point from registerKiloProvider(pi, models) to its end
EntryRegister(models) ==
    /\ registerKiloProvider(models)
    /\ initCatalog' = List(models)
    /\ commands' = commands \cup {REFRESH_COMMAND}
    /\ ext' = "active"

\* the entry point when its fetchKiloModels call throws `message`: part_005
\* catches, warns and goes on with FALLBACK_MODELS; kilo-code-provider.ts has no
\* try and its promise rejects
EntryFails(message) ==
    /\ thrown' = Err(message)
    /\ IF variant = "part_005"
       THEN /\ warned' = Append(warned,
                   <<"[kilo-code-provider] model fetch failed, using fallback models: ">>
                       \o message)
            /\ EntryRegister(FALLBACK_MODELS)
       ELSE /\ ext' = "rejected"
            /\ UNCHANGED <<warned, published, registerCalls, initCatalog, commands>>

EntryFetchResolves ==
    /\ ext = "fetch"
    /\ \E status \in BridgeStatuses :
          IF FetchStatusThrows(status)
          THEN EntryFails(HttpError(status))
          ELSE /\ ext' = "json"
               /\ UNCHANGED <<warned, thrown, published, registerCalls, initCatalog,
                              commands>>
    /\ UNCHANGED <<variant, refresh, normVars, quotaVars, renderVars, listVars>>

EntryFetchRejects ==
    /\ ext = "fetch"
    /\ EntryFails(NetworkError)
    /\ UNCHANGED <<variant, refresh, normVars, quotaVars, renderVars, listVars>>

EntryJsonResolves ==
    /\ ext = "json"
    /\ \E payload \in BridgePayloads :
          LET r == ParseModels(payload)
          IN  IF r.ok
              THEN EntryRegister(r.models) /\ UNCHANGED <<warned, thrown>>
              ELSE EntryFails(r.error)
    /\ UNCHANGED <<variant, refresh, normVars, quotaVars, renderVars, listVars>>

\* the handler up to its await of fetch()
RefreshStart(i) ==
    /\ REFRESH_COMMAND \in commands
    /\ refresh[i].pc = "idle"
    /\ i > 1 => refresh[i - 1].pc # "idle"
    /\ refresh' = [refresh EXCEPT ![i] =
          [@ EXCEPT !.pc = "fetch",
                    !.notes = <<Note(<<"Refreshing Kilo Code models...">>, "info")>>]]
    /\ UNCHANGED <<variant, ext, published, registerCalls, commands, warned, thrown,
                   initCatalog, normVars, quotaVars, renderVars, listVars>>

RefreshCatchFallback(i, message) ==
    /\ refresh' = [refresh EXCEPT ![i] =
          [@ EXCEPT !.pc = "done", !.error = Err(message),
                    !.notes = Append(@, Note(<<"Failed to refresh Kilo models: ">>
                                                \o message, "error"))]]
    /\ registerKiloProvider(FALLBACK_MODELS)

RefreshCatchEmpty(i, message) ==
    /\ refresh' = [refresh EXCEPT ![i] =
          [@ EXCEPT !.pc = "done", !.error = Err(message),
                    !.notes = Append(@, Note(<<"Failed to refresh Kilo models: ">>
                                                \o message, "error"))]]
    /\ registerKiloProvider(<<>>)

\* the handler's catch block
RefreshCatch(i, message) ==
    /\ refresh' = [refresh EXCEPT ![i] =
          [@ EXCEPT !.pc = "done", !.error = Err(message),
                    !.notes = Append(@, Note(<<"Failed to refresh Kilo models: ">>
                                                \o message, "error"))]]
    /\ UNCHANGED <<published, registerCalls>>

RefreshPublishUnlessSuperseded(i, models) ==
    /\ IF \E j \in (i + 1)..MaxRefresh :
              refresh[j].pc = "done" /\ refresh[j].error = NONE
       THEN UNCHANGED <<published, registerCalls>>
       ELSE registerKiloProvider(models)
    /\ refresh' = [refresh EXCEPT ![i] =
          [@ EXCEPT !.pc = "done", !.models = List(models),
                    !.notes = Append(@, Note(<<"Loaded ", ToString(Len(models)),
                                               " Kilo Code models">>, "info"))]]

\* the handler's try block after fetchKiloModels returned
RefreshPublish(i, models) ==
    /\ registerKiloProvider(models)
    /\ refresh' = [refresh EXCEPT ![i] =
          [@ EXCEPT !.pc = "done", !.models = List(models),
                    !.notes = Append(@, Note(<<"Loaded ", ToString(Len(models)),
                                               " Kilo Code models">>, "info"))]]

RefreshFetchResolves(i) ==
    /\ refresh[i].pc = "fetch"
    /\ \E status \in BridgeStatuses :
          IF FetchStatusThrows(status)
          THEN RefreshCatch(i, HttpError(status))
          ELSE /\ refresh' = [refresh EXCEPT ![i].pc = "json"]
               /\ UNCHANGED <<published, registerCalls>>
    /\ UNCHANGED <<variant, ext, commands, warned, thrown, initCatalog, normVars,
                   quotaVars, renderVars, listVars>>

RefreshFetchRejects(i) ==
    /\ refresh[i].pc = "fetch"
    /\ RefreshCatch(i, NetworkError)
    /\ UNCHANGED <<variant, ext, commands, warned, thrown, initCatalog, normVars,
                   quotaVars, renderVars, listVars>>

RefreshJsonResolves(i) ==
    /\ refresh[i].pc = "json"
    /\ \E payload \in BridgePayloads :
          LET r == ParseModels(payload)
          IN  IF r.ok THEN RefreshPublish(i, r.models) ELSE RefreshCatch(i, r.error)
    /\ UNCHANGED <<variant, ext, commands, warned, thrown, initCatalog, normVars,
                   quotaVars, renderVars, listVars>>

Init ==
    /\ variant \in Variants
    /\ BridgeRest
    /\ NormRest
    /\ QuotaRest
    /\ RenderRest
    /\ ListRest

Next ==
    \/ EntryFetchResolves
    \/ EntryFetchRejects
    \/ EntryJsonResolves
    \/ \E i \in 1..MaxRefresh : RefreshStart(i)
    \/ \E i \in 1..MaxRefresh : RefreshFetchResolves(i)
    \/ \E i \in 1..MaxRefresh : RefreshFetchRejects(i)
    \/ \E i \in 1..MaxRefresh : RefreshJsonResolves(i)

Spec == Init /\ [][Next]_vars

(***************************************************************************)
(* Quota commands: /quota (part_002) and /quota-copilot (copilot-quota.ts) *)
(***************************************************************************)
EXPIRY_MS == 60000   \* the delay handed to setTimeout
TickMs == 30000      \* how far one step of the clock advances

AG_KEY == "antigravity-quota"
COPILOT_KEY == "copilot-quota"

QuotaStatuses == {200, 401, 503}

AgEntry(access, projectId) == [t |-> "object", access |-> access, projectId |-> projectId]
CopilotEntry(token) == [t |-> "object", refresh |-> token]
AuthFile(exists, ag, copilot) ==
    [exists |-> exists, google_antigravity |-> ag, github_copilot |-> copilot]

\* the states of ~/.pi/agent/auth.json an invocation may find
AuthFiles ==
    { AuthFile(FALSE, UNDEF, UNDEF),
      AuthFile(TRUE, UNDEF, UNDEF),
      AuthFile(TRUE, AgEntry(UNDEF, Str(<<"local">>)), CopilotEntry(Str(<<>>))),
      AuthFile(TRUE, AgEntry(Str(<<"tok">>), UNDEF), CopilotEntry(Str(<<"tok">>))),
      AuthFile(TRUE, AgEntry(Str(<<"tok">>), Str(<<"local">>)), UNDEF) }

\* LoadCodeAssistResponse.cloudaicompanionProject
LoadDatas ==
    { [cloudaicompanionProject |-> UNDEF],
      [cloudaicompanionProject |-> Str(<<"remote">>)],
      [cloudaicompanionProject |-> [t |-> "object", id |-> Str(<<"nested">>)]],
      [cloudaicompanionProject |-> [t |-> "object", id |-> UNDEF]] }

AuthMissingError == <<"auth.json not found at ", "~/.pi/agent/auth.json">>

\* fetchQuota before its first fetch(): NONE, or the Error it throws
AgCredentialError(auth) ==
    IF ~auth.exists THEN Err(AuthMissingError)
    ELSE IF auth.google_antigravity.t # "object"
            \/ ~Truthy(auth.google_antigravity.access)
    THEN Err(<<"google-antigravity config not found in auth.json">>)
    ELSE NONE

\* fetchCopilotQuota before its fetch(): NONE, or the Error it throws
CopilotCredentialError(auth) ==
    IF ~auth.exists THEN Err(AuthMissingError)
    ELSE IF auth.github_copilot.t # "object" \/ ~Truthy(auth.github_copilot.refresh)
    THEN Err(<<"github-copilot config not found in auth.json">>)
    ELSE NONE

AgLoadErrorNoStatus(status) == <<"Failed to loadCodeAssist">>

AgLoadError(status) == <<"Failed to loadCodeAssist: ", ToString(status)>>

AgModelsError(status) == <<"Failed to fetchAvailableModels: ", ToString(status)>>

CopilotUserError(status) == <<"Failed to fetch Copilot quota: ", ToString(status)>>

ResolveProjectRemoteFirst(projectId, loadData) ==
    OrElse(IF loadData.cloudaicompanionProject.t = "string"
           THEN loadData.cloudaicompanionProject
           ELSE IF loadData.cloudaicompanionProject.t = "object"
           THEN loadData.cloudaicompanionProject.id
           ELSE UNDEF,
           projectId)

\* resolvedProjectId
ResolveProject(projectId, loadData) ==
    OrElse(projectId,
           IF loadData.cloudaicompanionProject.t = "string"
           THEN loadData.cloudaicompanionProject
           ELSE IF loadData.cloudaicompanionProject.t = "object"
           THEN loadData.cloudaicompanionProject.id
           ELSE UNDEF)

ScheduleExpiryNever(i, key) == timers' = timers

\* setTimeout(() => ctx.ui.setWidget(key, undefined), 60000)
ScheduleExpiry(i, key) ==
    timers' = timers \cup {[key |-> key, by |-> i, left |-> EXPIRY_MS]}

\* a fetch() call just issued, and the same call once its response has arrived
Call(url) == [url |-> url, status |-> 0]
Answered(rec, status) == [rec EXCEPT !.calls[Len(rec.calls)].status = status]

\* the locals of fetchQuota (projectId, loadData, resolvedProjectId) end with
\* the call
Returned(rec) ==
    [rec EXCEPT !.localProject = UNDEF, !.loadData = NONE, !.project = UNDEF]

\* what the credential file holds for a vendor: the file, the vendor's key and
\* a non-empty token under that key
Credential(auth, entry, token) ==
    [exists |-> auth.exists,
     entry |-> entry.t = "object",
     token |-> entry.t = "object" /\ Truthy(entry[token])]

\* the value a tool's execute() returns from its catch block
ToolError(message) ==
    [isError |-> TRUE, text |-> <<"Error: ">> \o message, details |-> UNDEF]

\* the value a tool's execute() returns from its try block: the fetched data as
\* JSON text and as details, and no isError field
ToolData == [isError |-> FALSE, text |-> <<"{...}">>, details |-> [t |-> "fetched"]]

QuotaCatchRethrows(i, rec, prefix, message) ==
    /\ quota' = [quota EXCEPT ![i] =
          Returned([rec EXCEPT !.pc = "rejected", !.error = Err(message)])]
    /\ UNCHANGED <<widget, timers>>

QuotaCatchShowsStale(i, rec, prefix, message) ==
    /\ quota' = [quota EXCEPT ![i] =
          Returned([rec EXCEPT !.pc = "done", !.error = Err(message),
                               !.notes = Append(@, Note(<<prefix>> \o message,
                                                        "error")),
                               !.result = IF rec.via = "tool" THEN ToolData ELSE NONE])]
    /\ widget' = [k \in DOMAIN widget |-> [t |-> "widget", by |-> i]]
    /\ UNCHANGED timers

\* the catch block of the command handler (it notifies) or of the tool's
\* execute() (it returns an error result), entered by the invocation in state
\* `rec`
QuotaCatch(i, rec, prefix, message) ==
    /\ quota' = [quota EXCEPT ![i] =
          Returned(IF rec.via = "tool"
                   THEN [rec EXCEPT !.pc = "done", !.error = Err(message),
                                    !.result = ToolError(message)]
                   ELSE [rec EXCEPT !.pc = "done", !.error = Err(message),
                                    !.notes = Append(@, Note(<<prefix>> \o message,
                                                             "error"))])]
    /\ UNCHANGED <<widget, timers>>

\* the tool's execute() from the return of the fetch to its own return
ToolReturns(i) ==
    /\ quota' = [quota EXCEPT ![i] = Returned([@ EXCEPT !.pc = "done",
                                                         !.result = ToolData])]
    /\ UNCHANGED <<widget, timers>>

\* the handler from ctx.ui.setWidget(key, factory, ...) to the end of its try block
ShowQuota(i, key) ==
    /\ widget' = [widget EXCEPT ![key] = [t |-> "widget", by |-> i]]
    /\ ScheduleExpiry(i, key)
    /\ quota' = [quota EXCEPT ![i] = Returned([@ EXCEPT !.pc = "done"])]

AgCatch(i, rec, message) == QuotaCatch(i, rec, "Error fetching quota: ", message)

CopilotCatch(i, rec, message) ==
    QuotaCatch(i, rec, "Error fetching Copilot quota: ", message)

\* /quota (via = "command") or get_antigravity_quota (via = "tool"): the
\* invocation up to the first await of fetchQuota
AgBegin(i, via) ==
    /\ quota[i].pc = "idle"
    /\ i > 1 => quota[i - 1].pc # "idle"
    /\ \E auth \in AuthFiles :
          LET started == [quota[i] EXCEPT
                             !.vendor = "antigravity",
                             !.via = via,
                             !.credential =
                                 Credential(auth, auth.google_antigravity, "access"),
                             !.notes =
                                 IF via = "command"
                                 THEN <<Note(<<"Fetching Antigravity quota...">>, "info")>>
                                 ELSE <<>>]
              e == AgCredentialError(auth)
          IN  IF e # NONE
              THEN AgCatch(i, started, e.message)
              ELSE /\ quota' = [quota EXCEPT ![i] =
                        [started EXCEPT !.pc = "load",
                            !.localProject = auth.google_antigravity.projectId,
                            !.calls = <<Call("loadCodeAssist")>>]]
                   /\ UNCHANGED <<widget, timers>>
    /\ UNCHANGED <<normVars, bridgeVars, renderVars, listVars>>

AgStart(i) == AgBegin(i, "command")

AgToolStart(i) == AgBegin(i, "tool")

AgLoadResolves(i) ==
    /\ quota[i].pc = "load"
    /\ \E status \in QuotaStatuses :
          IF ~IsOk(status)
          THEN AgCatch(i, Answered(quota[i], status), AgLoadError(status))
          ELSE /\ quota' = [quota EXCEPT ![i] =
                    [Answered(quota[i], status) EXCEPT !.pc = "loadJson"]]
               /\ UNCHANGED <<widget, timers>>
    /\ UNCHANGED <<normVars, bridgeVars, renderVars, listVars>>

AgLoadJsonResolves(i) ==
    /\ quota[i].pc = "loadJson"
    /\ \E loadData \in LoadDatas :
          \* the second call's body is JSON.stringify({ project: resolvedProjectId })
          quota' = [quota EXCEPT ![i] =
              [@ EXCEPT !.pc = "models",
                        !.loadData = loadData,
                        !.project = ResolveProject(quota[i].localProject, loadData),
                        !.calls = Append(@, Call("fetchAvailableModels"))]]
    /\ UNCHANGED <<widget, timers, normVars, bridgeVars, renderVars, listVars>>

AgModelsResolves(i) ==
    /\ quota[i].pc = "models"
    /\ \E status \in QuotaStatuses :
          IF ~IsOk(status)
          THEN AgCatch(i, Answered(quota[i], status), AgModelsError(status))
          ELSE /\ quota' = [quota EXCEPT ![i] =
                    [Answered(quota[i], status) EXCEPT !.pc = "modelsJson"]]
               /\ UNCHANGED <<widget, timers>>
    /\ UNCHANGED <<normVars, bridgeVars, renderVars, listVars>>

\* fetchQuota returns; the handler writes its two diagnostic log files (taken to
\* succeed) and shows the widget; the tool returns the data
AgModelsJsonResolves(i) ==
    /\ quota[i].pc = "modelsJson"
    /\ IF quota[i].via = "tool" THEN ToolReturns(i) ELSE ShowQuota(i, AG_KEY)
    /\ UNCHANGED <<normVars, bridgeVars, renderVars, listVars>>

AgFetchRejects(i) ==
    /\ quota[i].pc \in {"load", "models"}
    /\ AgCatch(i, quota[i], NetworkError)
    /\ UNCHANGED <<normVars, bridgeVars, renderVars, listVars>>

\* /quota-copilot (via = "command") or get_copilot_quota (via = "tool"): the
\* invocation up to the await of fetch() in fetchCopilotQuota
CopilotBegin(i, via) ==
    /\ quota[i].pc = "idle"
    /\ i > 1 => quota[i - 1].pc # "idle"
    /\ \E auth \in AuthFiles :
          LET started == [quota[i] EXCEPT
                             !.vendor = "copilot",
                             !.via = via,
                             !.credential =
                                 Credential(auth, auth.github_copilot, "refresh"),
                             !.notes =
                                 IF via = "command"
                                 THEN <<Note(<<"Fetching Copilot quota...">>, "info")>>
                                 ELSE <<>>]
              e == CopilotCredentialError(auth)
          IN  IF e # NONE
              THEN CopilotCatch(i, started, e.message)
              ELSE /\ quota' = [quota EXCEPT ![i] =
                        [started EXCEPT !.pc = "user",
                            !.calls = <<Call("copilot_internal/user")>>]]
                   /\ UNCHANGED <<widget, timers>>
    /\ UNCHANGED <<normVars, bridgeVars, renderVars, listVars>>

CopilotStart(i) == CopilotBegin(i, "command")

CopilotToolStart(i) == CopilotBegin(i, "tool")

CopilotUserResolves(i) ==
    /\ quota[i].pc = "user"
    /\ \E status \in QuotaStatuses :
          IF ~IsOk(status)
          THEN CopilotCatch(i, Answered(quota[i], status), CopilotUserError(status))
          ELSE /\ quota' = [quota EXCEPT ![i] =
                    [Answered(quota[i], status) EXCEPT !.pc = "userJson"]]
               /\ UNCHANGED <<widget, timers>>
    /\ UNCHANGED <<normVars, bridgeVars, renderVars, listVars>>

CopilotUserJsonResolves(i) ==
    /\ quota[i].pc = "userJson"
    /\ IF quota[i].via = "tool" THEN ToolReturns(i) ELSE ShowQuota(i, COPILOT_KEY)
    /\ UNCHANGED <<normVars, bridgeVars, renderVars, listVars>>

CopilotFetchRejects(i) ==
    /\ quota[i].pc = "user"
    /\ CopilotCatch(i, quota[i], NetworkError)
    /\ UNCHANGED <<normVars, bridgeVars, renderVars, listVars>>

\* a pending expiry callback runs: ctx.ui.setWidget(key, undefined)
TimerFires(tm) ==
    /\ tm \in timers
    /\ tm.left <= 0
    /\ timers' = timers \ {tm}
    /\ widget' = [widget EXCEPT ![tm.key] = NONE]
    /\ UNCHANGED <<quota, normVars, bridgeVars, renderVars, listVars>>

\* time passes while no callback is due
Tick ==
    /\ timers # {}
    /\ \A tm \in timers : tm.left > 0
    /\ timers' = {[tm EXCEPT !.left = @ - TickMs] : tm \in timers}
    /\ UNCHANGED <<widget, quota, normVars, bridgeVars, renderVars, listVars>>

QuotaInit ==
    /\ QuotaRest
    /\ NormRest
    /\ variant = "part_005"
    /\ BridgeRest
    /\ RenderRest
    /\ ListRest

QuotaNext ==
    \/ \E i \in 1..MaxQuota : AgStart(i)
    \/ \E i \in 1..MaxQuota : AgLoadResolves(i)
    \/ \E i \in 1..MaxQuota : AgLoadJsonResolves(i)
    \/ \E i \in 1..MaxQuota : AgModelsResolves(i)
    \/ \E i \in 1..MaxQuota : AgModelsJsonResolves(i)
    \/ \E i \in 1..MaxQuota : AgFetchRejects(i)
    \/ \E i \in 1..MaxQuota : CopilotStart(i)
    \/ \E i \in 1..MaxQuota : CopilotUserResolves(i)
    \/ \E i \in 1..MaxQuota : CopilotUserJsonResolves(i)
    \/ \E i \in 1..MaxQuota : CopilotFetchRejects(i)
    \/ \E tm \in timers : TimerFires(tm)
    \/ Tick

QuotaSpec == QuotaInit /\ [][QuotaNext]_vars

\* time passes and due callbacks run: the event loop is never blocked for good
FairQuotaSpec ==
    QuotaSpec /\ WF_vars(Tick) /\ WF_vars(\E tm \in timers : TimerFires(tm))

\* the commands and the tools get_antigravity_quota and get_copilot_quota
HandlersNext ==
    \/ QuotaNext
    \/ \E i \in 1..MaxQuota : AgToolStart(i)
    \/ \E i \in 1..MaxQuota : CopilotToolStart(i)

HandlersSpec == QuotaInit /\ [][HandlersNext]_vars

(***************************************************************************)
(* Quota widget contents: the factories handed to ctx.ui.setWidget         *)
(* (RenderSpec).  A remainingFraction is held in thousandths and a         *)
(* percent_remaining in tenths of a percent.  The title lines, the credits *)
(* and account lines and the reset-time text are left out.                 *)
(***************************************************************************)
MaxModels == 3      \* most entries of FetchAvailableModelsResponse.models
MaxSnapshots == 2   \* most entries of CopilotUserResponse.quota_snapshots

\* the number k / 1000
Frac(k) == [t |-> "number", milli |-> k]

\* the number k / 10
Pct(k) == [t |-> "number", tenths |-> k]

QuotaInfo(fraction, exhausted) ==
    [t |-> "object", remainingFraction |-> fraction, isExhausted |-> exhausted]

Group(modelIds) == [modelIds |-> modelIds]
ModelSort(groups) == [groups |-> groups]

Snapshot(unlimited, percent, remaining, entitlement) ==
    [unlimited |-> unlimited, percent_remaining |-> percent,
     remaining |-> remaining, entitlement |-> entitlement]

\* Object.entries of a parsed JSON object, keys in the order they arrived
Entries(ids, values) ==
    [t |-> "object",
     entries |-> [k \in 1..Len(values) |-> [id |-> ids[k], value |-> values[k]]]]

\* (x).toFixed(1) + "%" of a number of k tenths
ToFixed1(k) == <<ToString(k \div 10), ".", ToString(k % 10), "%">>

\* g.modelIds || []
GroupIds(g) ==
    IF g.modelIds.t = "array"
    THEN {g.modelIds.items[k] : k \in 1..Len(g.modelIds.items)} ELSE {}

\* new Set(modelsData.agentModelSorts?.[0]?.groups?.flatMap(...) || [])
recommendedIds(data) ==
    IF data.agentModelSorts.t # "array" THEN {}
    ELSE IF Len(data.agentModelSorts.items) = 0 THEN {}
    ELSE LET groups == data.agentModelSorts.items[1].groups
         IN  IF groups.t # "array" THEN {}
             ELSE UNION {GroupIds(groups.items[k]) : k \in 1..Len(groups.items)}

IsRelevantRecommendedOnly(entry, recommended) ==
    IF entry.value.t # "object" THEN FALSE ELSE entry.id \in recommended

\* the filter callback on [id, info]
IsRelevant(entry, recommended) ==
    IF entry.value.t # "object" THEN FALSE        \* !info.quotaInfo
    ELSE \/ entry.id \in recommended
         \/ /\ entry.value.remainingFraction.t # "undefined"
            /\ entry.value.remainingFraction.milli < 1000

\* a[1].quotaInfo?.remainingFraction ?? 1, in thousandths
FractionOrOne(entry) == Coalesce(entry.value.remainingFraction, Frac(1000)).milli

\* the sort callback
CompareFractions(a, b) == FractionOrOne(a) - FractionOrOne(b)

RECURSIVE InsertRowDescending(_, _)
InsertRowDescending(s, x) ==
    IF Len(s) = 0 THEN <<x>>
    ELSE IF CompareFractions(Head(s), x) >= 0
         THEN <<Head(s)>> \o InsertRowDescending(Tail(s), x)
    ELSE <<x>> \o s

RECURSIVE InsertRow(_, _)
InsertRow(s, x) ==
    IF Len(s) = 0 THEN <<x>>
    ELSE IF CompareFractions(Head(s), x) <= 0 THEN <<Head(s)>> \o InsertRow(Tail(s), x)
    ELSE <<x>> \o s

\* .sort(callback): Array.prototype.sort is stable
RECURSIVE SortRows(_)
SortRows(entries) ==
    IF Len(entries) = 0 THEN <<>>
    ELSE InsertRow(SortRows(SubSeq(entries, 1, Len(entries) - 1)), entries[Len(entries)])

relevantModelsDefaultInfo(data) ==
    LET recommended == recommendedIds(data)
        entries == data.models.entries
        filled == [k \in 1..Len(entries) |->
                      IF entries[k].value.t # "object"
                      THEN [entries[k] EXCEPT !.value = QuotaInfo(UNDEF, UNDEF)]
                      ELSE entries[k]]
    IN  SortRows(SelectSeq(filled, LAMBDA e : IsRelevant(e, recommended)))

\* relevantModels
relevantModels(data) ==
    LET recommended == recommendedIds(data)
    IN  SortRows(SelectSeq(data.models.entries,
                           LAMBDA e : IsRelevant(e, recommended)))

AgColorNoExhausted(info) ==
    LET remainingVal == info.remainingFraction
    IN  IF remainingVal.t # "undefined" /\ remainingVal.milli < 100 THEN "error"
        ELSE IF remainingVal.t # "undefined" /\ remainingVal.milli < 500 THEN "warning"
        ELSE "text"

\* color of a /quota row
AgColor(info) ==
    LET remainingVal == info.remainingFraction
    IN  IF Truthy(info.isExhausted)
           \/ (remainingVal.t # "undefined" /\ remainingVal.milli < 100)
        THEN "error"
        ELSE IF remainingVal.t # "undefined" /\ remainingVal.milli < 500 THEN "warning"
        ELSE "text"

\* the line pushed for one entry of relevantModels
AgRow(entry) ==
    LET remainingVal == entry.value.remainingFraction
    IN  [id |-> entry.id,
         remaining |-> IF remainingVal.t # "undefined"
                       THEN ToFixed1(remainingVal.milli) ELSE <<"N/A">>,
         color |-> AgColor(entry.value),
         exhausted |-> Truthy(entry.value.isExhausted)]

\* the rows of the /quota widget
AgRows(data) ==
    IF data.models.t # "object" THEN <<>>
    ELSE LET relevant == relevantModels(data)
         IN  [k \in 1..Len(relevant) |-> AgRow(relevant[k])]

CopilotRowIgnoreUnlimited(entry) ==
    [id |-> entry.id,
     text |-> ToFixed1(entry.value.percent_remaining.tenths),
     color |-> IF entry.value.percent_remaining.tenths < 100 THEN "error"
               ELSE IF entry.value.percent_remaining.tenths < 500 THEN "warning"
               ELSE "text",
     counts |-> <<entry.value.remaining, entry.value.entitlement>>]

\* the line pushed for one entry of quota_snapshots
CopilotRow(entry) ==
    IF Truthy(entry.value.unlimited)
    THEN [id |-> entry.id, text |-> <<"Unlimited">>, color |-> "success",
          counts |-> <<>>]
    ELSE [id |-> entry.id,
          text |-> ToFixed1(entry.value.percent_remaining.tenths),
          color |-> IF entry.value.percent_remaining.tenths < 100 THEN "error"
                    ELSE IF entry.value.percent_remaining.tenths < 500 THEN "warning"
                    ELSE "text",
          counts |-> <<entry.value.remaining, entry.value.entitlement>>]

\* the rows of the /quota-copilot widget
CopilotRows(data) ==
    IF data.quota_snapshots.t # "object" THEN <<>>
    ELSE [k \in 1..Len(data.quota_snapshots.entries) |->
             CopilotRow(data.quota_snapshots.entries[k])]

\* ---- inputs
AgIds == <<"A", "B", "C", "D", "E">>
SnapshotIds == <<"chat", "completions", "premium_interactions", "other">>

Fractions ==
    {UNDEF, Frac(0), Frac(50), Frac(100), Frac(200), Frac(500), Frac(800), Frac(1000)}

\* ModelInfo.quotaInfo: absent, or an object
QuotaInfos ==
    {UNDEF}
        \cup {QuotaInfo(f, UNDEF) : f \in Fractions}
        \cup {QuotaInfo(f, Bool(TRUE)) : f \in {UNDEF, Frac(800)}}
        \cup {QuotaInfo(Frac(1000), Bool(FALSE))}

\* FetchAvailableModelsResponse.agentModelSorts
AgentModelSorts ==
    { UNDEF,
      Array(<<>>),
      Array(<<ModelSort(UNDEF)>>),
      Array(<<ModelSort(Array(<<Group(Array(<<"A">>)), Group(UNDEF),
                                Group(Array(<<"C", "D">>))>>))>>),
      Array(<<ModelSort(Array(<<Group(Array(<<"B">>))>>)),
              ModelSort(Array(<<Group(Array(<<"A">>))>>))>>) }

ModelsDatas ==
    {[models |-> UNDEF, agentModelSorts |-> so] : so \in AgentModelSorts}
        \cup {[models |-> Entries(AgIds, infos), agentModelSorts |-> so] :
                 infos \in SeqsUpTo(QuotaInfos, MaxModels), so \in AgentModelSorts}

Snapshots ==
    {Snapshot(Bool(FALSE), Pct(p), 5, 100) :
        p \in {0, 50, 99, 100, 320, 499, 500, 910, 1000}}
        \cup {Snapshot(Bool(TRUE), Pct(p), r, 100) : p \in {0, 50, 1000}, r \in {0, 100}}

CopilotDatas ==
    {[quota_snapshots |-> UNDEF]}
        \cup {[quota_snapshots |-> Entries(SnapshotIds, snaps)] :
                 snaps \in SeqsUpTo(Snapshots, MaxSnapshots)}

RenderInit ==
    /\ \/ /\ modelsData \in ModelsDatas
          /\ copilotData = [quota_snapshots |-> UNDEF]
       \/ /\ modelsData = [models |-> UNDEF, agentModelSorts |-> UNDEF]
          /\ copilotData \in CopilotDatas
    /\ agLines = NONE
    /\ copilotLines = NONE
    /\ NormRest
    /\ variant = "part_005"
    /\ BridgeRest
    /\ QuotaRest
    /\ ListRest

\* the host builds the /quota widget: the factory of part_002 runs
RenderAntigravity ==
    /\ agLines = NONE
    /\ agLines' = List(AgRows(modelsData))
    /\ UNCHANGED <<modelsData, copilotData, copilotLines, normVars, bridgeVars,
                   quotaVars, listVars>>

\* the host builds the /quota-copilot widget: the factory of copilot-quota.ts runs
RenderCopilot ==
    /\ copilotLines = NONE
    /\ copilotLines' = List(CopilotRows(copilotData))
    /\ UNCHANGED <<modelsData, agLines, copilotData, normVars, bridgeVars, quotaVars,
                   listVars>>

RenderNext == RenderAntigravity \/ RenderCopilot

RenderSpec == RenderInit /\ [][RenderNext]_vars

(***************************************************************************)
(* Free-model listing: isFreeModel and the kilo-list-free-models command   *)
(* of part_006 (FreeSpec).  A price is held in thousandths.                *)
(***************************************************************************)
MaxListed == 2    \* records in a gateway response to kilo-list-free-models

\* the number k / 1000
Price(k) == [t |-> "number", milli |-> k]

\* a pricing object, by its values in Object.values() order
Pricing(values) == [t |-> "object", values |-> values]

PricedModel(id, name, context_length, pricing) ==
    [id |-> id, name |-> name, context_length |-> context_length,
     top_provider |-> UNDEF, pricing |-> pricing]

IsDigit(c) == c \in {"0", "1", "2", "3", "4", "5", "6", "7", "8", "9"}

DigitValue(c) == CHOOSE d \in 0..9 : ToString(d) = c

\* the longest prefix of s made of digits
RECURSIVE DigitRun(_)
DigitRun(s) ==
    IF Len(s) = 0 \/ ~IsDigit(Head(s)) THEN <<>>
    ELSE <<Head(s)>> \o DigitRun(Tail(s))

RECURSIVE DigitsValue(_)
DigitsValue(d) ==
    IF Len(d) = 0 THEN 0
    ELSE 10 * DigitsValue(SubSeq(d, 1, Len(d) - 1)) + DigitValue(d[Len(d)])

\* the fraction digits f in thousandths (digits past the third are cut)
FractionMilli(f) ==
    LET d(k) == IF k <= Len(f) THEN DigitValue(f[k]) ELSE 0
    IN  100 * d(1) + 10 * d(2) + d(3)

\* parseFloat(s): leading white space is skipped, then the longest prefix that
\* is a decimal literal (sign, digits, point, digits) is converted and the rest
\* is ignored; NaN when there is no such prefix.  Exponents and "Infinity" are
\* not read.
ParseFloat(s) ==
    LET t == TrimStart(s)
        signed == Len(t) > 0 /\ Head(t) \in {"+", "-"}
        negative == Len(t) > 0 /\ Head(t) = "-"
        u == IF signed THEN Tail(t) ELSE t
        int == DigitRun(u)
        rest == SubSeq(u, Len(int) + 1, Len(u))
        frac == IF Len(rest) > 0 /\ Head(rest) = "." THEN DigitRun(Tail(rest)) ELSE <<>>
    IN  IF Len(int) = 0 /\ Len(frac) = 0 THEN NAN
        ELSE Price((IF negative THEN -1 ELSE 1)
                       * (1000 * DigitsValue(int) + FractionMilli(frac)))

\* isFreeModel
isFreeModel(model) ==
    LET pricing == model.pricing
    IN  IF pricing.t # "object" THEN FALSE            \* !pricing
        ELSE \A k \in 1..Len(pricing.values) :
                LET value == pricing.values[k]
                    num == IF value.t = "string" THEN ParseFloat(value.s) ELSE value
                IN  \/ value = UNDEF                   \* continue
                    \/ num.t = "number" /\ num.milli = 0

\* (a.name || a.id || "").localeCompare(b.name || b.id || "")
CompareNames(a, b) ==
    LocaleCompare(OrElse(OrElse(a.name, a.id), Str(<<>>)).s,
                  OrElse(OrElse(b.name, b.id), Str(<<>>)).s)

RECURSIVE InsertByName(_, _)
InsertByName(s, x) ==
    IF Len(s) = 0 THEN <<x>>
    ELSE IF CompareNames(Head(s), x) <= 0 THEN <<Head(s)>> \o InsertByName(Tail(s), x)
    ELSE <<x>> \o s

\* freeModels.sort(callback): Array.prototype.sort is stable
RECURSIVE SortByName(_)
SortByName(models) ==
    IF Len(models) = 0 THEN <<>>
    ELSE InsertByName(SortByName(SubSeq(models, 1, Len(models) - 1)),
                      models[Len(models)])

\* the cells of a model's row: name, id and context, before padding
FreeRow(m) ==
    LET context == OrElse(m.context_length, TopProvider(m, "context_length"))
    IN  [name |-> OrElse(OrElse(m.name, m.id), Str(<<"unknown">>)).s,
         id |-> OrElse(m.id, Str(<<"unknown">>)).s,
         context |-> IF Truthy(context) THEN ToString(context.n) ELSE "?"]

\* the pricing values a gateway record may carry
Pricings ==
    { UNDEF, NULL,
      Pricing(<<>>),
      Pricing(<<UNDEF, UNDEF>>),
      Pricing(<<Str(<<"0">>), Str(<<"0">>)>>),
      Pricing(<<Price(0), UNDEF>>),
      Pricing(<<Str(<<"0", ".", "0", "0">>), Str(<<"-", "0">>)>>),
      Pricing(<<Str(<<"0">>), Str(<<"0", ".", "0", "0", "1">>)>>),
      Pricing(<<Price(2), Price(0)>>),
      Pricing(<<Str(<<>>)>>),
      Pricing(<<Str(<<"f", "r", "e", "e">>)>>),
      Pricing(<<Str(<<" ", "0", "a">>)>>),
      Pricing(<<NAN>>),
      Pricing(<<Price(0), NULL>>) }

PricedModels ==
    {PricedModel(Str(<<"a">>), UNDEF, Num(2000), p) : p \in Pricings}
        \cup {PricedModel(Str(<<"b">>), Str(<<" ", "a">>), UNDEF, p) : p \in Pricings}

PricedPayloads ==
    {[data |-> UNDEF]}
        \cup {[data |-> Array(d)] : d \in SeqsUpTo(PricedModels, MaxListed)}

\* the handler up to its await of fetch()
ListFreeStart ==
    /\ listing.pc = "idle"
    /\ listing' = [listing EXCEPT
          !.pc = "fetch",
          !.notes = <<Note(<<"Fetching Kilo Code models...">>, "info")>>]
    /\ UNCHANGED <<normVars, bridgeVars, quotaVars, renderVars>>

\* the handler's catch block
ListFreeCatch(message) ==
    listing' = [listing EXCEPT
        !.pc = "done", !.error = Err(message),
        !.notes = Append(@, Note(<<"Failed to list free models: ">> \o message,
                                 "error"))]

ListFreeFetchResolves ==
    /\ listing.pc = "fetch"
    /\ \E status \in BridgeStatuses :
          IF ~IsOk(status) THEN ListFreeCatch(HttpError(status))
          ELSE listing' = [listing EXCEPT !.pc = "json"]
    /\ UNCHANGED <<normVars, bridgeVars, quotaVars, renderVars>>

ListFreeFetchRejects ==
    /\ listing.pc = "fetch"
    /\ ListFreeCatch(NetworkError)
    /\ UNCHANGED <<normVars, bridgeVars, quotaVars, renderVars>>

\* the handler from the return of response.json() to its end
ListFreeJsonResolves ==
    /\ listing.pc = "json"
    /\ \E payload \in PricedPayloads :
          LET data == IF payload.data.t = "array" THEN payload.data.items ELSE <<>>
              freeModels == SortByName(SelectSeq(data, isFreeModel))
          IN  listing' = [listing EXCEPT
                  !.pc = "done",
                  !.data = List(data),
                  !.listed = IF Len(freeModels) = 0 THEN NONE ELSE List(freeModels),
                  !.notes = Append(@,
                      IF Len(freeModels) = 0
                      THEN Note(<<"No free models found">>, "info")
                      ELSE Note(<<<<"Free Kilo Code models (",
                                    ToString(Len(freeModels)), "):">>>>
                                    \o [k \in 1..Len(freeModels) |->
                                           FreeRow(freeModels[k])],
                                "info"))]
    /\ UNCHANGED <<normVars, bridgeVars, quotaVars, renderVars>>

FreeInit ==
    /\ ListRest
    /\ NormRest
    /\ variant = "part_005"
    /\ BridgeRest
    /\ QuotaRest
    /\ RenderRest

FreeNext ==
    \/ ListFreeStart
    \/ ListFreeFetchResolves
    \/ ListFreeFetchRejects
    \/ ListFreeJsonResolves

FreeSpec == FreeInit /\ [][FreeNext]_vars

(***************************************************************************)
(* Claims about the normaliser and the fetcher (NormSpec)                  *)
(***************************************************************************)
\* the raw list of the response under test: payload.data || []
BodyData == IF body.payload.data.t = "array" THEN body.payload.data.items ELSE <<>>

\* the vendor gave a max-completion value that is a number of at least 1
VendorMaxGiven ==
    /\ raw.top_provider.t = "object"
    /\ raw.top_provider.max_completion_tokens.t = "number"
    /\ raw.top_provider.max_completion_tokens.n >= 1

\* C6: fetchKiloModels fails with the zero-models error whenever no record of a
\* successfully fetched payload survives normalisation, also when the raw list
\* was not empty; a list it returns is never empty.
C6_ZeroModelsIsFailure ==
    (outcome # NONE /\ IsOk(body.status)) =>
        /\ (\A i \in 1..Len(BodyData) : toModelConfig(BodyData[i]) = UNDEF)
              => (~outcome.ok /\ outcome.error = ZeroModelsError)
        /\ outcome.ok => Len(outcome.models) > 0

C6_Witness ==
    /\ outcome # NONE
    /\ IsOk(body.status)
    /\ Len(BodyData) = 2
    /\ ~outcome.ok
    /\ outcome.error = ZeroModelsError

\* C8 (as claimed): the ids of a list fetchKiloModels returns are pairwise
\* distinct, whatever the raw payload.
C8_IdsUnique ==
    (outcome # NONE /\ outcome.ok) =>
        \A i, j \in 1..Len(outcome.models) :
            i # j => outcome.models[i].id # outcome.models[j].id

\* C9 (as claimed): an accepted record's maxTokens is a positive integer that is
\* at most its contextWindow.
C9_MaxTokensWithinContext ==
    (cfg # NONE /\ cfg.t = "config") =>
        (cfg.maxTokens > 0 /\ cfg.maxTokens <= cfg.contextWindow)

\* C9 (amended): an accepted record's maxTokens is a positive integer; it is at
\* most contextWindow whenever the vendor gave no max-completion value of at least 1
\* and contextWindow is at least 4096.
C9_MaxTokensPositive ==
    (cfg # NONE /\ cfg.t = "config") =>
        /\ cfg.maxTokens \in Nat \ {0}
        /\ cfg.contextWindow \in Nat \ {0}
        /\ (~VendorMaxGiven /\ cfg.contextWindow >= 4096)
              => cfg.maxTokens <= cfg.contextWindow

C9_Witness ==
    /\ cfg # NONE
    /\ cfg.t = "config"
    /\ ~VendorMaxGiven
    /\ raw.top_provider.t = "object"
    /\ raw.top_provider.max_completion_tokens = Num(-5)
    /\ cfg.contextWindow = 16384
    /\ cfg.maxTokens = 4096

\* C10 (as claimed): an accepted record's maxTokens is never below 4096, and is at
\* most 65536 unless the vendor gave a max-completion value above 65536.
C10_MaxTokensInRange ==
    (cfg # NONE /\ cfg.t = "config") =>
        /\ cfg.maxTokens >= 4096
        /\ cfg.maxTokens <= 65536
              \/ (VendorMaxGiven /\ raw.top_provider.max_completion_tokens.n > 65536)

\* C10 (amended): an accepted record's maxTokens lies in [4096, 65536] unless the
\* vendor gave a max-completion value of at least 1, and then it is that value
\* rounded down, which may be below 4096 or above 65536.
C10_MaxTokensInRangeOrVendor ==
    (cfg # NONE /\ cfg.t = "config") =>
        IF VendorMaxGiven
        THEN cfg.maxTokens = raw.top_provider.max_completion_tokens.n
        ELSE cfg.maxTokens >= 4096 /\ cfg.maxTokens <= 65536

C10_Witness ==
    /\ cfg # NONE
    /\ cfg.t = "config"
    /\ ~VendorMaxGiven
    /\ cfg.contextWindow = 2000
    /\ cfg.maxTokens = 4096

\* the vendor's top_provider.max_completion_tokens of the record under test
VendorMax == TopProvider(raw, "max_completion_tokens")

\* v is a number and v <= 0
NonPositive(v) == v.t = "number" /\ (v.n < 0 \/ (v.n = 0 /\ ~v.half))

\* clamp(x, lo, hi)
Clamp(x, lo, hi) == IF x < lo THEN lo ELSE IF x > hi THEN hi ELSE x

\* C11: resolveMaxTokens returns the vendor's max_completion_tokens unchanged when
\* it is a positive integer; when it is absent, null, non-numeric, non-finite or
\* non-positive it returns clamp(floor(contextWindow / 4), 4096, 65536), so that a
\* contextWindow of 2000 gives 4096, 200000 gives 50000 and 2000000 gives 65536.
C11_ResolveMaxTokens ==
    (cfg # NONE /\ cfg.t = "config") =>
        /\ (VendorMax.t = "number" /\ ~VendorMax.half /\ VendorMax.n >= 1)
              => cfg.maxTokens = VendorMax.n
        /\ (VendorMax.t # "number" \/ NonPositive(VendorMax))
              => /\ cfg.maxTokens = Clamp(cfg.contextWindow \div 4, 4096, 65536)
                 /\ cfg.contextWindow = 2000 => cfg.maxTokens = 4096
                 /\ cfg.contextWindow = 200000 => cfg.maxTokens = 50000
                 /\ cfg.contextWindow = 2000000 => cfg.maxTokens = 65536

C11_Witness ==
    /\ cfg # NONE
    /\ cfg.t = "config"
    /\ VendorMax = Num(100000)
    /\ cfg.contextWindow = 2000
    /\ cfg.maxTokens = 100000

\* the two sources of the context window of the record under test
TopContext == raw.context_length
NestedContext == TopProvider(raw, "context_length")

\* v is a number and v > 0
Positive(v) == v.t = "number" /\ (v.n >= 1 \/ (v.n = 0 /\ v.half))

\* v is a number and v >= 1
AtLeastOne(v) == v.t = "number" /\ v.n >= 1

\* C12 (as claimed): resolveContextWindow returns the top-level context_length
\* (rounded down) when it is a positive number, else the nested
\* top_provider.context_length when that is a positive number, else 128000, and
\* the result is always a positive integer.
C12_FirstPositiveNumber ==
    (cfg # NONE /\ cfg.t = "config") =>
        /\ cfg.contextWindow \in Nat \ {0}
        /\ cfg.contextWindow =
              IF Positive(TopContext) THEN TopContext.n
              ELSE IF Positive(NestedContext) THEN NestedContext.n
              ELSE 128000

\* C12 (amended): resolveContextWindow returns the top-level context_length
\* rounded down when it is a finite number of at least 1, else the nested
\* top_provider.context_length rounded down when that is a finite number of at
\* least 1, else 128000; every other value (absent, null, non-numeric, non-finite,
\* zero, negative, and positive below 1) falls through to the next source, and the
\* result is always a positive integer.
C12_FirstNumberAtLeastOne ==
    (cfg # NONE /\ cfg.t = "config") =>
        /\ cfg.contextWindow \in Nat \ {0}
        /\ cfg.contextWindow =
              IF AtLeastOne(TopContext) THEN TopContext.n
              ELSE IF AtLeastOne(NestedContext) THEN NestedContext.n
              ELSE 128000

C12_Witness ==
    /\ cfg # NONE
    /\ cfg.t = "config"
    /\ TopContext = NumHalf(0)
    /\ NestedContext = Num(2000)
    /\ cfg.contextWindow = 2000

\* an id that is absent, empty or made of white space only
BlankId(id) == id.t # "string" \/ \A k \in 1..Len(id.s) : id.s[k] = " "

\* a string that is not empty and has no white space at either end
TrimmedNonEmpty(s) == Len(s) > 0 /\ s[1] # " " /\ s[Len(s)] # " "

\* C13: toModelConfig returns undefined for every raw record whose id is absent,
\* empty or whitespace-only, and such a record is not in the catalog that
\* fetchKiloModels returns: the catalog holds exactly one record per raw record
\* with a non-blank id, and every id in it is non-empty and trimmed.
C13_BlankIdsDropped ==
    /\ (cfg # NONE /\ BlankId(raw.id)) => cfg = UNDEF
    /\ (cfg # NONE /\ cfg.t = "config") =>
          ~BlankId(raw.id) /\ TrimmedNonEmpty(cfg.id)
    /\ (outcome # NONE /\ outcome.ok) =>
          /\ Len(outcome.models)
                = Cardinality({k \in 1..Len(BodyData) : ~BlankId(BodyData[k].id)})
          /\ \A j \in 1..Len(outcome.models) :
                /\ TrimmedNonEmpty(outcome.models[j].id)
                /\ \E k \in 1..Len(BodyData) :
                      /\ ~BlankId(BodyData[k].id)
                      /\ Trim(BodyData[k].id.s) = outcome.models[j].id

C13_Witness ==
    /\ outcome # NONE
    /\ outcome.ok
    /\ Len(BodyData) = 2
    /\ BodyData[1].id = Str(<<" ">>)
    /\ BodyData[2].id = Str(<<" ", "a">>)
    /\ Len(outcome.models) = 1
    /\ outcome.models[1].id = <<"a">>

\* the arrangements of the raw list of the response under test
Arrangements ==
    {[k \in 1..Len(BodyData) |-> BodyData[p[k]]] :
        p \in {q \in [1..Len(BodyData) -> 1..Len(BodyData)] :
                  \A x, y \in 1..Len(BodyData) : x # y => q[x] # q[y]}}

\* the vendor gave the record a preferredIndex
HasIndex(r) == r.preferredIndex.t = "number"

\* twice the value of a number, so that halves compare as integers
Twice(v) == 2 * v.n + (IF v.half THEN 1 ELSE 0)

\* the name a record is listed under: its name, or its id when it has no name
ListedName(r) == OrElse(OrElse(r.name, r.id), Str(<<>>)).s

\* the list s is in ascending order of preferredIndex, records without one after
\* every record with one, ties in ascending order of name
InClaimedOrder(s) ==
    \A i, j \in 1..Len(s) :
        i < j =>
            /\ ~(~HasIndex(s[i]) /\ HasIndex(s[j]))
            /\ (HasIndex(s[i]) /\ HasIndex(s[j]))
                  => Twice(s[i].preferredIndex) <= Twice(s[j].preferredIndex)
            /\ (s[i].preferredIndex = s[j].preferredIndex)
                  => LocaleCompare(ListedName(s[i]), ListedName(s[j])) <= 0

\* C14 (as claimed): the catalog fetchKiloModels returns is the normalisation,
\* invalid records dropped and nothing else moved, of the raw records arranged
\* in ascending order of the vendor-provided preferredIndex, records without a
\* preferredIndex after every record with one, ties broken by name (the id when
\* the name is absent).
C14_CatalogInIndexOrder ==
    (outcome # NONE /\ outcome.ok) =>
        \E s \in Arrangements : InClaimedOrder(s) /\ outcome.models = MapFilter(s)

\* the list s is in the order of the sort's comparator
InComparatorOrder(s) ==
    \A i, j \in 1..Len(s) : i < j => CompareModels(s[i], s[j]) <= 0

\* C15: the (preferredIndex ascending, name ascending) sort of fetchKiloModels is
\* idempotent: what it returns is in sorted order, a raw list that is already in
\* sorted order comes out in the same order, and sorting its result again
\* changes nothing.
C15_SortIdempotent ==
    sorted # NONE =>
        /\ InComparatorOrder(sorted.items)
        /\ InComparatorOrder(BodyData) => sorted.items = BodyData
        /\ SortModels(sorted.items) = sorted.items

C15_Witness ==
    /\ sorted # NONE
    /\ Len(BodyData) = 2
    /\ BodyData[1] # BodyData[2]
    /\ CompareModels(BodyData[1], BodyData[2]) = 0
    /\ sorted.items = BodyData

\* the record's preferredIndex is zero, negative, non-finite or not a number
UnusableIndex(r) ==
    /\ r.preferredIndex # UNDEF
    /\ r.preferredIndex.t = "number" => Twice(r.preferredIndex) <= 0

\* the record's preferredIndex is a positive number
PositiveIndex(r) == r.preferredIndex.t = "number" /\ Twice(r.preferredIndex) > 0

\* the list s with the preferredIndex taken off every record that has an
\* unusable one
WithoutUnusableIndex(s) ==
    [k \in 1..Len(s) |->
        IF UnusableIndex(s[k]) THEN [s[k] EXCEPT !.preferredIndex = UNDEF] ELSE s[k]]

\* C26: the catalog sort orders a record whose preferredIndex is zero, negative,
\* non-finite or non-numeric exactly as the same record without preferredIndex:
\* taking those indexes off before or after the sort gives the same list; such
\* a record never precedes a record with a positive preferredIndex, and it and
\* the records without preferredIndex are in ascending order of name.
C26_UnusableIndexAsAbsent ==
    sorted # NONE =>
        /\ WithoutUnusableIndex(sorted.items) = SortModels(WithoutUnusableIndex(BodyData))
        /\ \A i, j \in 1..Len(sorted.items) :
              i < j =>
                  /\ ~(UnusableIndex(sorted.items[i]) /\ PositiveIndex(sorted.items[j]))
                  /\ (~PositiveIndex(sorted.items[i]) /\ ~PositiveIndex(sorted.items[j]))
                        => LocaleCompare(ListedName(sorted.items[i]),
                                         ListedName(sorted.items[j])) <= 0

C26_Witness ==
    /\ sorted # NONE
    /\ Len(BodyData) = 2
    /\ BodyData[1].preferredIndex = Num(-1)
    /\ BodyData[2].preferredIndex = UNDEF
    /\ ListedName(BodyData[2]) = <<" ">>
    /\ sorted.items = <<BodyData[2], BodyData[1]>>

(***************************************************************************)
(* Claims about the catalog registry bridge (Spec)                         *)
(***************************************************************************)
LastNote(r) == r.notes[Len(r.notes)]

\* s ends with the sequence e
EndsWith(s, e) ==
    Len(s) >= Len(e) /\ SubSeq(s, Len(s) - Len(e) + 1, Len(s)) = e

\* the errors fetchKiloModels can fail with
FetchErrors ==
    {HttpError(st) : st \in {x \in BridgeStatuses : ~IsOk(x)}}
        \cup {ZeroModelsError, NetworkError}

\* C1: a kilo-refresh-models invocation whose fetch fails does not call the
\* provider registry, leaves the published catalog as it was (no fallback is
\* substituted) and ends with an error notification that carries the fetch
\* error's message.
C1_FailedRefreshKeepsCatalog ==
    [][\A i \in 1..MaxRefresh :
          (refresh[i].pc # "done" /\ refresh'[i].pc = "done"
              /\ refresh'[i].models = NONE)
          => /\ published' = published
             /\ registerCalls' = registerCalls
             /\ refresh'[i].error \in {Err(m) : m \in FetchErrors}
             /\ LastNote(refresh'[i]).level = "error"
             /\ EndsWith(LastNote(refresh'[i]).text, refresh'[i].error.message)]_vars

C1_Witness ==
    /\ refresh[1].pc = "done"
    /\ refresh[1].error = Err(ZeroModelsError)
    /\ refresh[2].pc = "done"
    /\ refresh[2].error = Err(HttpError(500))
    /\ registerCalls = 1
    /\ published = initCatalog
    /\ published # List(FALLBACK_MODELS)

\* C2 (as claimed): when the entry point's catalog fetch fails, the entry point
\* does not raise, publishes exactly the fallback table and registers the
\* kilo-refresh-models command.
C2_InitFailureFallsBack ==
    thrown # NONE =>
        /\ ext = "active"
        /\ published = List(FALLBACK_MODELS)
        /\ REFRESH_COMMAND \in commands

\* C3: the published catalog is always the list the entry point published or the
\* whole list returned by one successful refresh fetch, also while refreshes
\* overlap; it is never a mixture of two lists.
C3_PublishedIsOneWholeResult ==
    \/ published = NONE /\ registerCalls = 0
    \/ published = initCatalog
    \/ \E i \in 1..MaxRefresh : refresh[i].pc = "done" /\ refresh[i].models = published

C3_Witness ==
    /\ refresh[1].pc = "json"
    /\ refresh[2].pc = "done"
    /\ refresh[2].models = published
    /\ Len(published.items) = 2
    /\ published # initCatalog
    /\ initCatalog # List(FALLBACK_MODELS)

\* C23: the static fallback table has at least one entry, and every entry has a
\* non-empty id that no other entry has, a contextWindow above 0, a maxTokens
\* that is positive, at least 4096 and at most its contextWindow, and a cost of
\* zero in all four fields; so has the catalog published from it.
C23_FallbackTableValid ==
    LET table == IF thrown # NONE /\ published # NONE /\ initCatalog = published
                 THEN published.items ELSE FALLBACK_MODELS
    IN  /\ Len(table) >= 1
        /\ \A k \in 1..Len(table) :
              /\ table[k].id # <<>>
              /\ table[k].id # <<"">>
              /\ \A j \in 1..Len(table) : table[j].id = table[k].id => j = k
              /\ table[k].contextWindow > 0
              /\ table[k].maxTokens > 0
              /\ table[k].maxTokens >= 4096
              /\ table[k].maxTokens <= table[k].contextWindow
              /\ table[k].cost.input = 0
              /\ table[k].cost.output = 0
              /\ table[k].cost.cacheRead = 0
              /\ table[k].cost.cacheWrite = 0

C23_Witness ==
    /\ variant = "part_005"
    /\ thrown = Err(ZeroModelsError)
    /\ published = List(FALLBACK_MODELS)
    /\ ext = "active"

\* C25: once the entry point has registered the provider, and after any
\* sequence of refreshes, successful or failed, the published catalog holds at
\* least one model.
C25_PublishedNeverEmpty ==
    /\ ext = "active" => published # NONE
    /\ published # NONE => Len(published.items) >= 1

C25_Witness ==
    /\ ext = "active"
    /\ refresh[1].pc = "done"
    /\ refresh[1].error = Err(ZeroModelsError)
    /\ refresh[2].pc = "done"
    /\ refresh[2].error = Err(NetworkError)
    /\ Len(published.items) >= 1

\* C28: each kilo-refresh-models invocation that succeeds publishes its own
\* result at the moment it finishes, and nothing else changes the published
\* catalog once the provider is registered; so with two overlapping successful
\* invocations the catalog published once both have finished is the result of
\* the one that finished last, whichever was started last.
C28_LastCompletedWins ==
    [][/\ \A i \in 1..MaxRefresh :
             (refresh[i].pc # "done" /\ refresh'[i].pc = "done"
                  /\ refresh'[i].error = NONE)
                 => published' = refresh'[i].models
       /\ (ext = "active"
              /\ \A i \in 1..MaxRefresh :
                     ~(refresh[i].pc # "done" /\ refresh'[i].pc = "done"
                           /\ refresh'[i].error = NONE))
             => published' = published]_vars

C28_Witness ==
    /\ refresh[1].pc = "done"
    /\ refresh[1].error = NONE
    /\ refresh[2].pc = "done"
    /\ refresh[2].error = NONE
    /\ refresh[1].models # refresh[2].models
    /\ published = refresh[1].models

(***************************************************************************)
(* Claims about the quota commands (QuotaSpec, FairQuotaSpec)              *)
(***************************************************************************)
WidgetKeys == {AG_KEY, COPILOT_KEY}

KeyOf(rec) == IF rec.vendor = "antigravity" THEN AG_KEY ELSE COPILOT_KEY

\* C4 (as claimed): a display that replaced an earlier one stays up until its own
\* 60 seconds have passed: while the expiry callback scheduled last for a widget
\* is not yet due, the widget is shown (the callback of a superseded display does
\* not clear it).
C4_SupersededTimerDoesNotClear ==
    \A k \in WidgetKeys : \A tm \in timers :
        (/\ tm.key = k
         /\ tm.left > 0
         /\ \A o \in timers : o.key = k => o.left <= tm.left)
        => widget[k] # NONE

HandshakeProject(loadData) ==
    CASE loadData.cloudaicompanionProject.t = "string"
           -> loadData.cloudaicompanionProject
      [] loadData.cloudaicompanionProject.t = "object"
           -> loadData.cloudaicompanionProject.id
      [] OTHER -> UNDEF

\* C20: Vendor A's fetchQuota issues the models/quota call only after the
\* handshake call has returned a success status (after a failed handshake the
\* second call is never issued), and the project the second call names (the
\* invocation's resolvedProjectId) is the local credential's projectId when
\* present, otherwise the identifier of the handshake response.
C20_HandshakeThenModels ==
    \A i \in 1..MaxQuota :
        quota[i].vendor = "antigravity" =>
            /\ Len(quota[i].calls) <= 2
            /\ Len(quota[i].calls) >= 1 => quota[i].calls[1].url = "loadCodeAssist"
            /\ Len(quota[i].calls) = 2 =>
                  /\ IsOk(quota[i].calls[1].status)
                  /\ quota[i].calls[2].url = "fetchAvailableModels"
            /\ quota[i].pc \in {"models", "modelsJson"} =>
                  /\ Len(quota[i].calls) = 2
                  /\ quota[i].project =
                        IF quota[i].localProject.t # "undefined"
                        THEN quota[i].localProject
                        ELSE HandshakeProject(quota[i].loadData)

C20_Witness ==
    /\ quota[1].vendor = "antigravity"
    /\ quota[1].pc = "done"
    /\ Len(quota[1].calls) = 1
    /\ quota[1].calls[1].status = 503
    /\ quota[2].vendor = "antigravity"
    /\ quota[2].pc = "models"
    /\ quota[2].localProject = UNDEF
    /\ quota[2].loadData.cloudaicompanionProject.t = "object"
    /\ Len(quota[2].calls) = 2
    /\ quota[2].calls[2].status = 0
    /\ quota[2].project = Str(<<"nested">>)

(***************************************************************************)
(* HandlersSpec: the quota commands and the quota tools                    *)
(***************************************************************************)
\* the invocation found no usable credential: no file, no key for the vendor,
\* or no token under that key
CredentialMissing(rec) ==
    /\ rec.credential # NONE
    /\ ~(rec.credential.exists /\ rec.credential.entry /\ rec.credential.token)

\* the message that names what is missing for the vendor
MissingCredentialName(rec) ==
    IF ~rec.credential.exists THEN AuthMissingError
    ELSE IF rec.vendor = "antigravity"
    THEN <<"google-antigravity config not found in auth.json">>
    ELSE <<"github-copilot config not found in auth.json">>

CommandPrefix(rec) ==
    IF rec.vendor = "antigravity" THEN "Error fetching quota: "
    ELSE "Error fetching Copilot quota: "

\* C21: an invocation that finds the credential file absent, without the
\* vendor's key, or without the token under that key (access for Vendor A,
\* refresh for Vendor B) has failed before any HTTP call and has returned
\* normally: the command has notified an error naming the missing credential,
\* the tool has returned a result with isError = true carrying that message, and
\* neither has thrown to the host.
C21_MissingCredentialIsRecoverable ==
    \A i \in 1..MaxQuota :
        CredentialMissing(quota[i]) =>
            /\ quota[i].pc = "done"
            /\ quota[i].calls = <<>>
            /\ quota[i].error = Err(MissingCredentialName(quota[i]))
            /\ quota[i].via = "command" =>
                   /\ LastNote(quota[i]).level = "error"
                   /\ EndsWith(LastNote(quota[i]).text, MissingCredentialName(quota[i]))
                   /\ quota[i].result = NONE
            /\ quota[i].via = "tool" =>
                   /\ quota[i].result # NONE
                   /\ quota[i].result.isError
                   /\ EndsWith(quota[i].result.text, MissingCredentialName(quota[i]))

C21_Witness ==
    /\ quota[1].via = "command"
    /\ quota[1].vendor = "antigravity"
    /\ CredentialMissing(quota[1])
    /\ quota[1].credential.entry
    /\ quota[1].pc = "done"
    /\ quota[2].via = "tool"
    /\ quota[2].vendor = "copilot"
    /\ CredentialMissing(quota[2])
    /\ ~quota[2].credential.exists
    /\ quota[2].pc = "done"
    /\ quota[2].result.isError

\* the fetch of a returned invocation failed: the credential was missing, or a
\* call was answered with a non-success status or not at all
FetchFailed(rec) ==
    \/ CredentialMissing(rec)
    \/ \E k \in 1..Len(rec.calls) : ~IsOk(rec.calls[k].status)

\* C22: when a quota fetch fails for any reason, the returning command handler
\* leaves the widgets and the expiry timers as they were and only adds one
\* error notification; the returning tool yields isError = true with the error
\* text and no details, and notifies nothing.  No default and no previously
\* fetched figures are presented.
C22_FailedFetchShowsNothing ==
    [][\A i \in 1..MaxQuota :
          (quota[i].pc # "done" /\ quota'[i].pc = "done" /\ FetchFailed(quota'[i])) =>
              /\ widget' = widget
              /\ timers' = timers
              /\ quota'[i].error # NONE
              /\ quota'[i].via = "command" =>
                     /\ Len(quota'[i].notes) = 2
                     /\ LastNote(quota'[i]) =
                            Note(<<CommandPrefix(quota'[i])>> \o quota'[i].error.message,
                                 "error")
                     /\ quota'[i].result = NONE
              /\ quota'[i].via = "tool" =>
                     /\ quota'[i].notes = <<>>
                     /\ quota'[i].result =
                            [isError |-> TRUE,
                             text |-> <<"Error: ">> \o quota'[i].error.message,
                             details |-> UNDEF]]_vars

C22_Witness ==
    /\ quota[1].via = "command"
    /\ quota[1].vendor = "antigravity"
    /\ quota[1].pc = "done"
    /\ quota[1].error = NONE
    /\ widget[AG_KEY] # NONE
    /\ quota[2].via = "command"
    /\ quota[2].vendor = "antigravity"
    /\ quota[2].pc = "done"
    /\ Len(quota[2].calls) = 2
    /\ quota[2].calls[2].status = 503
    /\ quota[2].error # NONE

(***************************************************************************)
(* FetchersSpec: the four HTTP fetches side by side                        *)
(***************************************************************************)
StatusResponses ==
    {r \in Responses : r.status \in FailStatuses}
        \cup {[status |-> 200, payload |-> [data |-> Array(<<ModelA>>)]]}

FetchersInit ==
    /\ raw = RawModel(UNDEF, UNDEF, UNDEF, UNDEF, UNDEF)
    /\ cfg = NONE
    /\ body \in StatusResponses
    /\ outcome = NONE
    /\ sorted = NONE
    /\ variant = "part_005"
    /\ BridgeRest
    /\ QuotaRest
    /\ RenderRest
    /\ ListRest

FetchersNext == FetchModels \/ QuotaNext

FetchersSpec == FetchersInit /\ [][FetchersNext]_vars

Contains(message, token) == \E k \in 1..Len(message) : message[k] = token

\* C7: a fetch that receives a non-success HTTP status (the catalog gateway, the
\* Vendor A handshake, the Vendor A models call, the Vendor B user call) fails
\* with an error whose message contains that status, and hands no data on: the
\* catalog fetch returns no models, the quota handler shows no widget and issues
\* no further call.
C7_StatusInError ==
    /\ (outcome # NONE /\ ~IsOk(body.status)) =>
          /\ ~outcome.ok
          /\ "models" \notin DOMAIN outcome
          /\ Contains(outcome.error, ToString(body.status))
    /\ \A i \in 1..MaxQuota : \A k \in 1..Len(quota[i].calls) :
          (quota[i].calls[k].status # 0 /\ ~IsOk(quota[i].calls[k].status)) =>
              /\ k = Len(quota[i].calls)
              /\ quota[i].pc = "done"
              /\ quota[i].error # NONE
              /\ Contains(quota[i].error.message, ToString(quota[i].calls[k].status))
              /\ LastNote(quota[i]).level = "error"
              /\ \A w \in WidgetKeys : widget[w] # NONE => widget[w].by # i
              /\ \A tm \in timers : tm.by # i

C7_Witness ==
    /\ outcome # NONE
    /\ body.status = 500
    /\ quota[1].vendor = "antigravity"
    /\ Len(quota[1].calls) = 2
    /\ quota[1].calls[2].status = 503
    /\ quota[2].vendor = "copilot"
    /\ Len(quota[2].calls) = 1
    /\ quota[2].calls[1].status = 401
    /\ quota[2].pc = "done"

(***************************************************************************)
(* Claims about the quota widget contents (RenderSpec)                     *)
(***************************************************************************)
\* the entries of the Vendor A response, none when it has no models object
ModelEntries ==
    IF modelsData.models.t = "object" THEN modelsData.models.entries ELSE <<>>

SnapshotEntries ==
    IF copilotData.quota_snapshots.t = "object"
    THEN copilotData.quota_snapshots.entries ELSE <<>>

\* the quotaInfo of the model a row is about
InfoOf(id) == (CHOOSE k \in 1..Len(ModelEntries) : ModelEntries[k].id = id)

\* the model has a row in the /quota widget
HasRow(id) == \E k \in 1..Len(agLines.items) : agLines.items[k].id = id

\* the severity claimed for a remaining fraction of f thousandths
Severity(exhausted, defined, f) ==
    IF exhausted \/ (defined /\ f < 100) THEN "critical"
    ELSE IF defined /\ f >= 100 /\ f < 500 THEN "warning"
    ELSE "normal"

\* the theme colour a severity is drawn in
SeverityColor(sev) ==
    CASE sev = "critical" -> "error" [] sev = "warning" -> "warning" [] OTHER -> "text"

\* C16: severity is the same function of the remaining fraction f for both
\* vendors: critical (error colour) when the row is exhausted or f < 0.10, warning
\* when 0.10 <= f < 0.50, normal otherwise; Vendor B's percent_remaining p counts
\* as f = p / 100, and a Vendor A row with isExhausted = true is critical for every
\* fraction, an undefined one included.
C16_SeverityThresholds ==
    /\ agLines # NONE =>
          \A k \in 1..Len(agLines.items) :
              LET row == agLines.items[k]
                  info == ModelEntries[InfoOf(row.id)].value
                  defined == info.remainingFraction.t # "undefined"
              IN  row.color =
                    SeverityColor(Severity(Truthy(info.isExhausted), defined,
                        IF defined THEN info.remainingFraction.milli ELSE 0))
    /\ copilotLines # NONE =>
          \A k \in 1..Len(copilotLines.items) :
              LET snapshot == SnapshotEntries[k].value
              IN  ~Truthy(snapshot.unlimited) =>
                    copilotLines.items[k].color =
                      SeverityColor(Severity(FALSE, TRUE,
                                             snapshot.percent_remaining.tenths))

C16_Witness ==
    /\ agLines # NONE
    /\ Len(agLines.items) = 3
    /\ agLines.items[1].color = "warning"
    /\ agLines.items[1].remaining = ToFixed1(100)
    /\ agLines.items[2].color = "text"
    /\ agLines.items[2].remaining = ToFixed1(500)
    /\ agLines.items[3].color = "error"
    /\ agLines.items[3].exhausted
    /\ agLines.items[3].remaining = <<"N/A">>

\* the model of entry e is in the groups of the vendor's first model sort
Recommended(e) == e.id \in recommendedIds(modelsData)

\* the remaining fraction of entry e is defined and less than 1
BelowFull(e) ==
    /\ e.value.t = "object"
    /\ e.value.remainingFraction.t # "undefined"
    /\ e.value.remainingFraction.milli < 1000

\* C17 (as claimed): a model of the Vendor A response has a row if and only if it
\* is recommended or its remaining fraction is defined and less than 1; so every
\* recommended model has a row.
C17_RowIffRecommendedOrBelowFull ==
    agLines # NONE =>
        \A k \in 1..Len(ModelEntries) :
            HasRow(ModelEntries[k].id)
                <=> (Recommended(ModelEntries[k]) \/ BelowFull(ModelEntries[k]))

\* C17 (amended): a model of the Vendor A response has a row if and only if its
\* entry carries a quotaInfo and it is recommended or its remaining fraction is
\* defined and less than 1; it then has exactly one row, and there is no row for
\* anything else.
C17_RowIffQuotaInfoAndRelevant ==
    agLines # NONE =>
        /\ \A k \in 1..Len(ModelEntries) :
              HasRow(ModelEntries[k].id)
                  <=> /\ ModelEntries[k].value.t = "object"
                      /\ Recommended(ModelEntries[k]) \/ BelowFull(ModelEntries[k])
        /\ \A i, j \in 1..Len(agLines.items) :
              agLines.items[i].id = agLines.items[j].id => i = j
        /\ \A i \in 1..Len(agLines.items) :
              \E k \in 1..Len(ModelEntries) : ModelEntries[k].id = agLines.items[i].id

C17_Witness ==
    /\ agLines # NONE
    /\ Len(ModelEntries) = 3
    /\ recommendedIds(modelsData) = {"A", "C", "D"}
    /\ ModelEntries[1].value = QuotaInfo(Frac(1000), UNDEF)
    /\ ModelEntries[2].value = QuotaInfo(Frac(800), UNDEF)
    /\ ModelEntries[3].value = UNDEF
    /\ HasRow("A")
    /\ HasRow("B")
    /\ ~HasRow("C")

\* C27: a model of the Vendor A response whose entry carries no quotaInfo has
\* no row in the /quota widget, recommended or not; every row of the widget is
\* about a model whose entry carries a quotaInfo object.
C27_NoRowWithoutQuotaInfo ==
    agLines # NONE =>
        /\ \A k \in 1..Len(ModelEntries) :
              ModelEntries[k].value.t # "object" => ~HasRow(ModelEntries[k].id)
        /\ \A i \in 1..Len(agLines.items) :
              \E k \in 1..Len(ModelEntries) :
                  /\ ModelEntries[k].id = agLines.items[i].id
                  /\ ModelEntries[k].value.t = "object"

C27_Witness ==
    /\ agLines # NONE
    /\ Len(ModelEntries) = 2
    /\ ModelEntries[1].value = UNDEF
    /\ Recommended(ModelEntries[1])
    /\ ~HasRow(ModelEntries[1].id)
    /\ ModelEntries[2].value.t = "object"
    /\ ~Recommended(ModelEntries[2])
    /\ HasRow(ModelEntries[2].id)
    /\ Len(agLines.items) = 1

\* the remaining fraction of the model a row is about
RowFraction(row) == ModelEntries[InfoOf(row.id)].value.remainingFraction

\* that fraction in thousandths, an undefined one counted as 1
RowFractionOrOne(row) ==
    IF RowFraction(row).t = "undefined" THEN 1000 ELSE RowFraction(row).milli

\* C18: the Vendor A rows are in ascending order of remaining fraction, an
\* undefined fraction counted as 1: no row with a smaller fraction comes after a
\* row with a larger one, and the rows with an undefined fraction come after every
\* row whose fraction is below 1.
C18_RowsAscendingByFraction ==
    agLines # NONE =>
        \A i, j \in 1..Len(agLines.items) :
            i < j =>
                /\ RowFractionOrOne(agLines.items[i]) <= RowFractionOrOne(agLines.items[j])
                /\ ~(/\ RowFraction(agLines.items[i]).t = "undefined"
                      /\ RowFraction(agLines.items[j]).t # "undefined"
                      /\ RowFraction(agLines.items[j]).milli < 1000)

C18_Witness ==
    /\ agLines # NONE
    /\ Len(ModelEntries) = 3
    /\ ModelEntries[1].value = QuotaInfo(Frac(800), UNDEF)
    /\ ModelEntries[2].value = QuotaInfo(Frac(200), UNDEF)
    /\ ModelEntries[3].value = QuotaInfo(UNDEF, UNDEF)
    /\ "C" \in recommendedIds(modelsData)
    /\ Len(agLines.items) = 3
    /\ agLines.items[1].id = "B"
    /\ agLines.items[2].id = "A"
    /\ agLines.items[3].id = "C"

\* C19: a Vendor B snapshot with unlimited = true is rendered as the fixed
\* "Unlimited" text in the success colour whatever its percent_remaining,
\* remaining and entitlement are, also when percent_remaining is below 10, and
\* none of those figures is shown in its row.
C19_UnlimitedIsFixed ==
    copilotLines # NONE =>
        /\ Len(copilotLines.items) = Len(SnapshotEntries)
        /\ \A k \in 1..Len(SnapshotEntries) :
              Truthy(SnapshotEntries[k].value.unlimited) =>
                  copilotLines.items[k] =
                      [id |-> SnapshotEntries[k].id, text |-> <<"Unlimited">>,
                       color |-> "success", counts |-> <<>>]

C19_Witness ==
    /\ copilotLines # NONE
    /\ Len(SnapshotEntries) = 2
    /\ SnapshotEntries[1].value = Snapshot(Bool(TRUE), Pct(50), 0, 100)
    /\ SnapshotEntries[2].value = Snapshot(Bool(FALSE), Pct(50), 5, 100)
    /\ copilotLines.items[1].color = "success"
    /\ copilotLines.items[2].color = "error"

(***************************************************************************)
(* Claims about the free-model listing (FreeSpec)                          *)
(***************************************************************************)
\* the model has pricing information: a pricing object with a defined field
HasPricing(m) ==
    /\ m.pricing.t = "object"
    /\ \E k \in 1..Len(m.pricing.values) : m.pricing.values[k] # UNDEF

\* the pricing field's value, parsed when it is a string, is the number 0
ParsesToZero(v) ==
    LET num == IF v.t = "string" THEN ParseFloat(v.s) ELSE v
    IN  num.t = "number" /\ num.milli = 0

\* the model is among the rows kilo-list-free-models showed
IsListed(m) ==
    /\ listing.listed # NONE
    /\ \E j \in 1..Len(listing.listed.items) : listing.listed.items[j] = m

\* C24 (as claimed): kilo-list-free-models lists a model of the response if and
\* only if the model has pricing information (a pricing object with at least
\* one defined field) and every defined pricing field parses to exactly 0; a
\* model with pricing absent, or with a pricing object without a defined field,
\* is not listed.
C24_FreeOnlyWithPricing ==
    (listing.pc = "done" /\ listing.data # NONE) =>
        \A k \in 1..Len(listing.data.items) :
            LET m == listing.data.items[k]
            IN  IsListed(m) <=>
                    /\ HasPricing(m)
                    /\ \A f \in 1..Len(m.pricing.values) :
                          m.pricing.values[f] # UNDEF => ParsesToZero(m.pricing.values[f])

====
